---- MODULE Spec2Model ----
(***************************************************************************)
(* Trading dashboard back end: the Simulator (bounded mean-reverting       *)
(* random walk), the in-memory CacheManager and the SSE stream             *)
(* broadcaster (api/stream.ts).                                            *)
(*                                                                         *)
(* Numbers.  The program computes in IEEE doubles; the model computes in   *)
(* fixed point:                                                            *)
(*   - monetary values (currentValue, target, bounds, total_value) are     *)
(*     integers in units of 0.01, so a target of 1.00 is 100;              *)
(*   - split weights are integers in units of 0.00001, so 0.6 is 60000;    *)
(*   - part1_value / part2_value are kept unrounded, in units of           *)
(*     0.01 * 0.00001;                                                     *)
(*   - pct_from_target is in units of 0.0001 percent;                      *)
(*   - time is in milliseconds, as returned by Date.now().                 *)
(***************************************************************************)
EXTENDS Integers, Sequences, FiniteSets, TLC

VARIABLES
    state,              \* Simulator.state of the live Simulator instance
    ret,                \* value returned by the last operation (or NULL)
    thrown,             \* TRUE iff the last operation threw
    lastOp,             \* name of the last operation executed
    pausedTicks,        \* consecutive generateTick() calls made while paused (capped)
    now,                \* Date.now()
    latestTick,         \* CacheManager.latestTick
    settings,           \* CacheManager.settings
    lastTickUpdate,     \* CacheManager.lastTickUpdate
    lastSettingsUpdate, \* CacheManager.lastSettingsUpdate
    hist,               \* history of the cache: last set since invalidate/clear, per key
    db,                 \* persistent store: latest Settings row and latest Tick row
    globalSimulator,    \* 0 = null, n = the n-th Simulator constructed (stream.ts:22)
    simulationInterval, \* 0 = null, otherwise the handle returned by setInterval (stream.ts:23)
    timers,             \* handles of the interval timers of the loop that are active
    timerSeq,           \* number of loop timers created so far
    connectedClients,   \* the Set of responses, in insertion order (stream.ts:24)
    pc,                 \* position of the /api/stream handler of each client
    fetched,            \* per handler: locals `settings` and `latestTick` of initializeSimulator
    writableEnded,      \* responses on which end() has been called
    closed,             \* clients whose connection has gone away
    received,           \* per client: the frames delivered to it, in order
    gen,                \* number of generateTick() calls made on the live Simulator(s)
    failed,             \* clients whose write threw in the step just taken
    keepAlive,          \* clients whose heartbeat timer (stream.ts:115) is active
    uncaught,           \* TRUE iff an exception has left a callback uncaught
    store,              \* tables of the persistent store: settings, user_actions, ticks, aggregates
    req,                \* per API request or client call: its position and locals
    generated           \* run identities returned by generateRunId() so far, in order

simVars   == <<state>>
cacheVars == <<latestTick, settings, lastTickUpdate, lastSettingsUpdate, hist>>
streamVars == <<db, globalSimulator, simulationInterval, timers, timerSeq,
                connectedClients, pc, fetched, writableEnded, closed, received,
                gen, failed, keepAlive, uncaught>>
ctlVars   == <<store, req, generated>>
vars      == <<state, ret, thrown, lastOp, pausedTicks, now, latestTick, settings,
               lastTickUpdate, lastSettingsUpdate, hist, db, globalSimulator,
               simulationInterval, timers, timerSeq, connectedClients, pc, fetched,
               writableEnded, closed, received, gen, failed, keepAlive, uncaught,
               store, req, generated>>

\* JavaScript null / undefined
NULL == [isNull |-> TRUE]

\* n / d rounded toward zero (fixed-point stand-in for the double quotient)
Quot(n, d) == IF n >= 0 THEN n \div d ELSE -((-n) \div d)

Abs(n) == IF n >= 0 THEN n ELSE -n

(***************************************************************************)
(* Simulator (src/unnamed/part_005)                                        *)
(***************************************************************************)

\* config.bandWidth = 0.05, as a percentage
bandWidthPct == 5

\* config.meanReversionRate = 0.1, as a percentage
meanReversionRatePct == 10

\* the weight 1.0 and the tolerance 0.0001 of updateSplits, in units of 0.00001
SplitOne == 100000
SplitTolerance == 10

\* target prices the operator may set: 1.00 and 2.00 (valid range is 0.01 .. 1,000,000)
Targets == {100, 200}

\* outcomes of addNoise(0.02), in units of 0.01: 0, one sigma and six sigma either way
Noise == {-12, -2, 0, 2, 12}

\* run identities
RunIds == {"run0", "run1"}

\* a missing (undefined) or empty run identity: falsy in `if (newRunId)`
NoRunId == ""

\* arguments tried for updateSplits(part1, part2)
SplitArgs == { <<60000, 40000>>, <<70000, 30000>>, <<50000, 60000>>,
               <<50005, 50005>>, <<50005, 50006>>, <<49995, 49995>>, <<49994, 49995>> }

\* bounds a caller may put in the initial state handed to the constructor
SuppliedBounds == { [lower |-> 95, upper |-> 105], [lower |-> 0, upper |-> 0] }

updateBounds(s) ==
    [s EXCEPT !.bounds = [lower |-> Quot(s.target * (100 - bandWidthPct), 100),
                          upper |-> Quot(s.target * (100 + bandWidthPct), 100)]]

\* a constructor that trusts the bounds of the state it is handed
Simulator_KeepsSuppliedBounds(initialState) == initialState

\* new Simulator(initialState): copies the state, then recomputes the bounds
Simulator(initialState) == updateBounds(initialState)

\* a reflect that clamps to the bound instead of mirroring the overshoot
reflect_Clamps(value, lower, upper) ==
    IF value < lower THEN lower
    ELSE IF value > upper THEN upper
    ELSE value

reflect(value, lower, upper) ==
    IF value < lower THEN lower + (lower - value)
    ELSE IF value > upper THEN upper - (value - upper)
    ELSE value

calculateDrift(current, target) == Quot(meanReversionRatePct * (target - current), 100)

getCurrentTickData(s, timestamp) ==
    [timestamp       |-> timestamp,
     total_value     |-> s.currentValue,
     part1_value     |-> s.currentValue * s.splits.part1,
     part2_value     |-> s.currentValue * s.splits.part2,
     target          |-> s.target,
     bounds          |-> s.bounds,
     pct_from_target |-> Quot((s.currentValue - s.target) * 100 * 10000, s.target)]

\* generateTick that steps the walk even while paused
generateTick_IgnoresPause(s, noise) ==
    [s EXCEPT !.currentValue =
        reflect(s.currentValue + calculateDrift(s.currentValue, s.target) + noise,
                s.bounds.lower, s.bounds.upper)]

\* state of the Simulator after generateTick() when addNoise returned noise
generateTick(s, noise) ==
    IF ~s.isRunning THEN s
    ELSE [s EXCEPT !.currentValue =
            reflect(s.currentValue + calculateDrift(s.currentValue, s.target) + noise,
                    s.bounds.lower, s.bounds.upper)]

pause(s)  == [s EXCEPT !.isRunning = FALSE]

resume(s) == [s EXCEPT !.isRunning = TRUE]

\* reset that forgets to re-enter the running state
reset_KeepsPauseState(s, newRunId) ==
    [s EXCEPT !.currentValue = s.target,
              !.runId        = IF newRunId # NoRunId THEN newRunId ELSE s.runId]

\* reset(newRunId): newRunId = NoRunId models reset() without an argument
reset(s, newRunId) ==
    [s EXCEPT !.currentValue = s.target,
              !.isRunning    = TRUE,
              !.runId        = IF newRunId # NoRunId THEN newRunId ELSE s.runId]

\* an updateTarget that also moves the value to the new target
updateTarget_RecentresValue(s, newTarget) ==
    updateBounds([s EXCEPT !.target = newTarget, !.currentValue = newTarget])

updateTarget(s, newTarget) == updateBounds([s EXCEPT !.target = newTarget])

\* TRUE iff updateSplits(part1, part2) throws
updateSplitsThrows(part1, part2) == Abs(part1 + part2 - SplitOne) > SplitTolerance

\* updateSplits that stores part1 before validating the sum
updateSplits_StoresBeforeCheck(s, part1, part2) ==
    IF updateSplitsThrows(part1, part2) THEN [s EXCEPT !.splits.part1 = part1]
    ELSE [s EXCEPT !.splits = [part1 |-> part1, part2 |-> part2]]

updateSplits(s, part1, part2) ==
    IF updateSplitsThrows(part1, part2) THEN s
    ELSE [s EXCEPT !.splits = [part1 |-> part1, part2 |-> part2]]

(***************************************************************************)
(* SpecSim: one Simulator instance driven by an arbitrary caller           *)
(***************************************************************************)

\* the clients that connect to /api/stream, one response object each
Clients == {1, 2}

\* nothing has connected to /api/stream and the store is empty
StreamIdle ==
    /\ db = [settings |-> NULL, latestTick |-> NULL]
    /\ globalSimulator = 0 /\ simulationInterval = 0
    /\ timers = {} /\ timerSeq = 0
    /\ connectedClients = <<>>
    /\ pc = [c \in Clients |-> "new"]
    /\ fetched = [c \in Clients |-> NULL]
    /\ writableEnded = {} /\ closed = {}
    /\ received = [c \in Clients |-> <<>>]
    /\ gen = 0 /\ failed = {}
    /\ keepAlive = {} /\ uncaught = FALSE

CacheIdle ==
    /\ latestTick = NULL /\ settings = NULL
    /\ lastTickUpdate = 0 /\ lastSettingsUpdate = 0
    /\ hist = [tick |-> NULL, settings |-> NULL]

\* the API requests whose handlers are followed, one handler invocation each
Requests == {1, 2}

\* a handler that has not been invoked
IdleRequest ==
    [pc |-> "idle", seq |-> 0, endpoint |-> "", body |-> NULL,
     action |-> "", currentSettings |-> NULL, newRunId |-> NoRunId,
     updatedSettings |-> NULL, updates |-> NULL, current |-> NULL,
     attempt |-> 0, inner |-> 0, lookups |-> 0, wrote |-> FALSE, written |-> <<>>,
     response |-> NULL, before |-> NULL]

\* the store holds no rows and no API request has been made
CtlIdle ==
    /\ store = [settings |-> <<>>, user_actions |-> <<>>, ticks |-> <<>>, aggregates |-> <<>>]
    /\ req = [r \in Requests |-> IdleRequest]
    /\ generated = <<>>

\* a clock reading at process start
StartTime == 100000

\* cap of the pausedTicks counter
MaxPausedTicks == 2

SimInit ==
    /\ \E t \in Targets, run \in BOOLEAN, b \in SuppliedBounds :
          state = Simulator([currentValue |-> t, target |-> t, bounds |-> b,
                             splits |-> [part1 |-> 60000, part2 |-> 40000],
                             isRunning |-> run, runId |-> "run0"])
    /\ ret = NULL /\ thrown = FALSE /\ lastOp = "new" /\ pausedTicks = 0
    /\ now = StartTime
    /\ CacheIdle
    /\ StreamIdle
    /\ CtlIdle

SimGenerateTick ==
    /\ \E noise \in Noise : state' = generateTick(state, noise)
    /\ ret' = getCurrentTickData(state', now)
    /\ thrown' = FALSE /\ lastOp' = "generateTick"
    /\ pausedTicks' = IF state.isRunning THEN 0
                      ELSE IF pausedTicks < MaxPausedTicks THEN pausedTicks + 1
                      ELSE pausedTicks
    /\ UNCHANGED <<now, cacheVars, streamVars, ctlVars>>

SimPause ==
    /\ state' = pause(state)
    /\ ret' = NULL /\ thrown' = FALSE /\ lastOp' = "pause" /\ pausedTicks' = 0
    /\ UNCHANGED <<now, cacheVars, streamVars, ctlVars>>

SimResume ==
    /\ state' = resume(state)
    /\ ret' = NULL /\ thrown' = FALSE /\ lastOp' = "resume" /\ pausedTicks' = 0
    /\ UNCHANGED <<now, cacheVars, streamVars, ctlVars>>

SimReset ==
    /\ \E id \in RunIds \cup {NoRunId} :
          /\ state' = reset(state, id)
          /\ ret' = [newRunId |-> id]
    /\ thrown' = FALSE /\ lastOp' = "reset" /\ pausedTicks' = 0
    /\ UNCHANGED <<now, cacheVars, streamVars, ctlVars>>

SimUpdateTarget ==
    /\ \E t \in Targets : state' = updateTarget(state, t)
    /\ ret' = NULL /\ thrown' = FALSE /\ lastOp' = "updateTarget" /\ pausedTicks' = 0
    /\ UNCHANGED <<now, cacheVars, streamVars, ctlVars>>

SimUpdateSplits ==
    /\ \E a \in SplitArgs :
          /\ state' = updateSplits(state, a[1], a[2])
          /\ thrown' = updateSplitsThrows(a[1], a[2])
          /\ ret' = [part1 |-> a[1], part2 |-> a[2]]
    /\ lastOp' = "updateSplits" /\ pausedTicks' = 0
    /\ UNCHANGED <<now, cacheVars, streamVars, ctlVars>>

SimNext ==
    \/ SimGenerateTick
    \/ SimPause
    \/ SimResume
    \/ SimReset
    \/ SimUpdateTarget
    \/ SimUpdateSplits

SpecSim == SimInit /\ [][SimNext]_vars

(***************************************************************************)
(* Properties of the Simulator, checked under SpecSim                      *)
(***************************************************************************)

\* C1: every tick returned by generateTick has bounds.lower <= total_value <=
\* bounds.upper, after any sequence of operations, also right after an
\* updateTarget that moves or shrinks the bounds.
C1_TickWithinBounds ==
    lastOp = "generateTick" =>
        /\ ret.bounds.lower <= ret.total_value
        /\ ret.total_value <= ret.bounds.upper

\* the display fields of a tick: everything but the timestamp
Display(tick) ==
    <<tick.total_value, tick.part1_value, tick.part2_value,
      tick.target, tick.bounds, tick.pct_from_target>>

\* C4: while the Simulator is paused, a generateTick call leaves currentValue
\* unchanged, and consecutive calls return the same total_value, part1_value,
\* part2_value, target, bounds and pct_from_target.
C4_PausedTicksIdentical ==
    [][ (~state.isRunning /\ lastOp' = "generateTick") =>
            /\ state'.currentValue = state.currentValue
            /\ ret'.total_value = state.currentValue
            /\ (lastOp = "generateTick" => Display(ret') = Display(ret)) ]_vars

C4_Witness ==
    /\ lastOp = "generateTick" /\ ~state.isRunning
    /\ pausedTicks = MaxPausedTicks
    /\ state.currentValue # state.target

\* C9: reset(newRunId), called in any state, sets currentValue to the current
\* target and the state to running, replaces the run identity exactly when one
\* is supplied, and leaves target, bounds and split weights unchanged.
C9_ResetToTarget ==
    [][ lastOp' = "reset" =>
            /\ state'.currentValue = state.target
            /\ state'.isRunning
            /\ state'.runId = (IF ret'.newRunId \in RunIds THEN ret'.newRunId ELSE state.runId)
            /\ state'.target = state.target
            /\ state'.bounds = state.bounds
            /\ state'.splits = state.splits ]_vars

C9_Witness ==
    /\ lastOp = "reset" /\ ret.newRunId = "run1"
    /\ state.runId = "run1" /\ state.isRunning
    /\ state.target = 200 /\ state.currentValue = 200
    /\ state.splits.part1 = 70000

\* C10: updateSplits(w1, w2) fails when |w1 + w2 - 1| exceeds 1e-4 and then
\* leaves both weights as they were; otherwise it replaces both weights.
\* updateSplits(0.5, 0.6) fails.
C10_SplitsAllOrNothing ==
    [][ lastOp' = "updateSplits" =>
            LET w1  == ret'.part1
                w2  == ret'.part2
                dev == IF w1 + w2 >= 100000 THEN w1 + w2 - 100000 ELSE 100000 - (w1 + w2)
            IN  /\ (dev > 10) =>
                      (thrown' /\ state'.splits = state.splits)
                /\ (dev <= 10) =>
                      (~thrown' /\ state'.splits = [part1 |-> w1, part2 |-> w2])
                /\ (w1 = 50000 /\ w2 = 60000) => thrown' ]_vars

C10_Witness ==
    /\ lastOp = "updateSplits" /\ thrown
    /\ ret = [part1 |-> 50000, part2 |-> 60000]
    /\ state.splits = [part1 |-> 70000, part2 |-> 30000]

\* C11: for every tick, with any split weights accepted by updateSplits
\* (|w1 + w2 - 1| <= 1e-4), part1_value + part2_value equals total_value
\* within 1e-9.  Part values are in units of 1e-7, so the difference times
\* 100 is compared with 1.
C11_PartsSumToTotal ==
    lastOp = "generateTick" =>
        Abs(ret.part1_value + ret.part2_value - ret.total_value * SplitOne) * 100 <= 1

\* C12: in every reachable Simulator state, from construction on,
\* bounds.lower = target * (1 - bandWidth) and bounds.upper = target *
\* (1 + bandWidth), whatever bounds the initial state supplied.
C12_BoundsDerivedFromTarget ==
    /\ state.bounds.lower * 100 = state.target * (100 - bandWidthPct)
    /\ state.bounds.upper * 100 = state.target * (100 + bandWidthPct)

C12_Witness ==
    /\ lastOp = "updateTarget" /\ state.target = 200
    /\ state.currentValue < 190
    /\ state.bounds = [lower |-> 190, upper |-> 210]

\* the value generateTick hands to reflect: currentValue + drift + noise
Candidate(s, noise) == s.currentValue + Quot(10 * (s.target - s.currentValue), 100) + noise

\* C29: reflect(v, lower, upper) is lower + (lower - v) for v < lower,
\* upper - (v - upper) for v > upper and v otherwise: the value a running
\* generateTick stores is that function of its candidate; with bounds
\* [0.95, 1.05] a candidate of 1.07 gives 1.03 and a candidate of 0.92 gives 0.98.
C29_ReflectMirrorsOvershoot ==
    [][ (lastOp' = "generateTick" /\ state.isRunning) =>
          \E noise \in Noise :
             LET v     == Candidate(state, noise)
                 lower == state.bounds.lower
                 upper == state.bounds.upper
             IN  /\ v < lower => state'.currentValue = 2 * lower - v
                 /\ v > upper => state'.currentValue = 2 * upper - v
                 /\ (lower <= v /\ v <= upper) => state'.currentValue = v
                 /\ (lower = 95 /\ upper = 105 /\ v = 107) => state'.currentValue = 103
                 /\ (lower = 95 /\ upper = 105 /\ v = 92) => state'.currentValue = 98 ]_vars

\* a running generateTick stored 1.03 at bounds [0.95, 1.05], the value a
\* candidate of 1.07 is reflected to
C29_Witness ==
    /\ lastOp = "generateTick" /\ state.isRunning
    /\ state.bounds = [lower |-> 95, upper |-> 105]
    /\ state.currentValue = 103

\* C30: updateTarget changes only target and bounds, updateSplits changes only
\* the split weights; neither changes currentValue, isRunning or runId.
C30_UpdatesTouchOnlyTheirFields ==
    [][ /\ lastOp' = "updateTarget" =>
              /\ state'.currentValue = state.currentValue
              /\ state'.isRunning = state.isRunning
              /\ state'.runId = state.runId
              /\ state'.splits = state.splits
        /\ lastOp' = "updateSplits" =>
              /\ state'.currentValue = state.currentValue
              /\ state'.isRunning = state.isRunning
              /\ state'.runId = state.runId
              /\ state'.target = state.target
              /\ state'.bounds = state.bounds ]_vars

\* the target was doubled while the value sat off the old target, paused
C30_Witness ==
    /\ lastOp = "updateTarget" /\ state.target = 200
    /\ state.currentValue = 98 /\ ~state.isRunning
    /\ state.runId = "run1"
    /\ state.splits = [part1 |-> 70000, part2 |-> 30000]

(***************************************************************************)
(* CacheManager (src/dist/src/db/supabase.d.ts, lines 46-158)              *)
(***************************************************************************)

\* cache time-to-live, in milliseconds
TICK_TTL == 2000
SETTINGS_TTL == 30000

\* isTickExpired with an off-by-one comparison: an entry exactly TICK_TTL old is expired
isTickExpired_AtTtl(lastUpdate, t) ==
    IF lastUpdate = 0 THEN TRUE ELSE t - lastUpdate >= TICK_TTL

\* isTickExpired(), reading this.lastTickUpdate = lastUpdate when Date.now() = t
isTickExpired(lastUpdate, t) ==
    IF lastUpdate = 0 THEN TRUE ELSE t - lastUpdate > TICK_TTL

\* isSettingsExpired(), reading this.lastSettingsUpdate = lastUpdate when Date.now() = t
isSettingsExpired(lastUpdate, t) ==
    IF lastUpdate = 0 THEN TRUE ELSE t - lastUpdate > SETTINGS_TTL

\* tick records handed to setLatestTick
TickValues ==
    { [run_id |-> "run0", timestamp |-> 0, total_value |-> 100,
       part1_value |-> 6000000, part2_value |-> 4000000, target_price |-> 100],
      [run_id |-> "run0", timestamp |-> 1, total_value |-> 102,
       part1_value |-> 6120000, part2_value |-> 4080000, target_price |-> 100] }

\* settings records handed to setSettings
SettingsValues ==
    { [run_id |-> "run0", target_price |-> 100, split_part1 |-> 60000,
       split_part2 |-> 40000, is_paused |-> FALSE],
      [run_id |-> "run0", target_price |-> 200, split_part1 |-> 60000,
       split_part2 |-> 40000, is_paused |-> TRUE] }

\* clock readings, as offsets from the reading at process start
ClockOffsets == {1, 2000, 2001, 30000, 30001, 32001}

CacheInit ==
    /\ state = NULL
    /\ ret = NULL /\ thrown = FALSE /\ lastOp = "new" /\ pausedTicks = 0
    /\ now = StartTime
    /\ CacheIdle
    /\ StreamIdle
    /\ CtlIdle

getLatestTick ==
    /\ IF isTickExpired(lastTickUpdate, now)
       THEN latestTick' = NULL /\ ret' = NULL
       ELSE latestTick' = latestTick /\ ret' = latestTick
    /\ thrown' = FALSE /\ lastOp' = "getLatestTick"
    /\ UNCHANGED <<state, pausedTicks, streamVars, ctlVars, now, settings, lastTickUpdate, lastSettingsUpdate, hist>>

setLatestTick ==
    /\ \E tick \in TickValues :
          /\ latestTick' = tick
          /\ lastTickUpdate' = now
          /\ hist' = [hist EXCEPT !.tick = [value |-> tick, at |-> now]]
    /\ ret' = NULL /\ thrown' = FALSE /\ lastOp' = "setLatestTick"
    /\ UNCHANGED <<state, pausedTicks, streamVars, ctlVars, now, settings, lastSettingsUpdate>>

getSettings ==
    /\ IF isSettingsExpired(lastSettingsUpdate, now)
       THEN settings' = NULL /\ ret' = NULL
       ELSE settings' = settings /\ ret' = settings
    /\ thrown' = FALSE /\ lastOp' = "getSettings"
    /\ UNCHANGED <<state, pausedTicks, streamVars, ctlVars, now, latestTick, lastTickUpdate, lastSettingsUpdate, hist>>

setSettings ==
    /\ \E v \in SettingsValues :
          /\ settings' = v
          /\ lastSettingsUpdate' = now
          /\ hist' = [hist EXCEPT !.settings = [value |-> v, at |-> now]]
    /\ ret' = NULL /\ thrown' = FALSE /\ lastOp' = "setSettings"
    /\ UNCHANGED <<state, pausedTicks, streamVars, ctlVars, now, latestTick, lastTickUpdate>>

\* invalidateSettings that drops the whole cache, as clear() does
invalidateSettings_ClearsAll ==
    /\ latestTick' = NULL /\ settings' = NULL
    /\ lastTickUpdate' = 0 /\ lastSettingsUpdate' = 0
    /\ hist' = [tick |-> NULL, settings |-> NULL]
    /\ ret' = NULL /\ thrown' = FALSE /\ lastOp' = "invalidateSettings"
    /\ UNCHANGED <<state, pausedTicks, streamVars, ctlVars, now>>

invalidateSettings ==
    /\ settings' = NULL
    /\ lastSettingsUpdate' = 0
    /\ hist' = [hist EXCEPT !.settings = NULL]
    /\ ret' = NULL /\ thrown' = FALSE /\ lastOp' = "invalidateSettings"
    /\ UNCHANGED <<state, pausedTicks, streamVars, ctlVars, now, latestTick, lastTickUpdate>>

invalidateTick ==
    /\ latestTick' = NULL
    /\ lastTickUpdate' = 0
    /\ hist' = [hist EXCEPT !.tick = NULL]
    /\ ret' = NULL /\ thrown' = FALSE /\ lastOp' = "invalidateTick"
    /\ UNCHANGED <<state, pausedTicks, streamVars, ctlVars, now, settings, lastSettingsUpdate>>

clear ==
    /\ latestTick' = NULL /\ settings' = NULL
    /\ lastTickUpdate' = 0 /\ lastSettingsUpdate' = 0
    /\ hist' = [tick |-> NULL, settings |-> NULL]
    /\ ret' = NULL /\ thrown' = FALSE /\ lastOp' = "clear"
    /\ UNCHANGED <<state, pausedTicks, streamVars, ctlVars, now>>

\* warm(tick, settings): sets each entry whose argument is not null
warm ==
    /\ \E tick \in TickValues \cup {NULL}, v \in SettingsValues \cup {NULL} :
          /\ IF tick # NULL
             THEN latestTick' = tick /\ lastTickUpdate' = now
             ELSE UNCHANGED <<latestTick, lastTickUpdate>>
          /\ IF v # NULL
             THEN settings' = v /\ lastSettingsUpdate' = now
             ELSE UNCHANGED <<settings, lastSettingsUpdate>>
          /\ hist' = [tick     |-> IF tick # NULL THEN [value |-> tick, at |-> now]
                                   ELSE hist.tick,
                      settings |-> IF v # NULL THEN [value |-> v, at |-> now]
                                   ELSE hist.settings]
    /\ ret' = NULL /\ thrown' = FALSE /\ lastOp' = "warm"
    /\ UNCHANGED <<state, pausedTicks, streamVars, ctlVars, now>>

\* time passes: Date.now() moves to a later reading
AdvanceClock ==
    /\ \E d \in ClockOffsets : StartTime + d > now /\ now' = StartTime + d
    /\ lastOp' = "clock"
    /\ UNCHANGED <<state, ret, thrown, pausedTicks, cacheVars, streamVars, ctlVars>>

CacheNext ==
    \/ getLatestTick
    \/ setLatestTick
    \/ getSettings
    \/ setSettings
    \/ invalidateSettings
    \/ invalidateTick
    \/ clear
    \/ warm
    \/ AdvanceClock

SpecCache == CacheInit /\ [][CacheNext]_vars

(***************************************************************************)
(* Properties of the CacheManager, checked under SpecCache                 *)
(***************************************************************************)

\* what a get must return: the value last set since the last invalidate/clear
\* if it is at most ttl old, null otherwise
Fresh(entry, ttl) ==
    IF entry # NULL /\ now - entry.at <= ttl THEN entry.value ELSE NULL

\* C5: getLatestTick (getSettings) returns the most recently set value iff one
\* was set since the last invalidate/clear and it is not older than 2000 ms
\* (30000 ms); otherwise it returns null.  A get right after a set returns the
\* value just set.
C5_GetReturnsFreshValue ==
    /\ lastOp = "getLatestTick" => ret = Fresh(hist.tick, 2000)
    /\ lastOp = "getSettings"   => ret = Fresh(hist.settings, 30000)

C5_Witness ==
    /\ lastOp = "getLatestTick"
    /\ ret \in TickValues
    /\ now - hist.tick.at = 2000
    /\ settings = NULL /\ hist.settings # NULL /\ now - hist.settings.at > 30000

\* C13: after invalidateSettings (resp. invalidateTick) the next getSettings
\* (resp. getLatestTick) returns null however recently the value was set, and
\* the invalidation leaves the other key's value and timestamp as they were.
\* hist.settings (hist.tick) is NULL exactly when nothing was set since the
\* last invalidation of that key.
C13_InvalidateForcesMiss ==
    [][ /\ (lastOp' = "invalidateSettings" =>
                /\ latestTick' = latestTick /\ lastTickUpdate' = lastTickUpdate
                /\ hist'.tick = hist.tick)
        /\ (lastOp' = "invalidateTick" =>
                /\ settings' = settings /\ lastSettingsUpdate' = lastSettingsUpdate
                /\ hist'.settings = hist.settings)
        /\ ((lastOp' = "getSettings" /\ hist.settings = NULL) => ret' = NULL)
        /\ ((lastOp' = "getLatestTick" /\ hist.tick = NULL) => ret' = NULL) ]_vars

\* the settings were invalidated at the very instant the tick was set, and the
\* tick is still cached with its timestamp
C13_Witness ==
    /\ lastOp = "invalidateSettings"
    /\ settings = NULL /\ lastSettingsUpdate = 0 /\ hist.settings = NULL
    /\ latestTick \in TickValues /\ lastTickUpdate = now /\ hist.tick # NULL

(***************************************************************************)
(* Stream broadcaster (src/api/stream.ts, lines 1-299)                     *)
(*                                                                         *)
(* Every `await` of the handler is a suspension point; the code between    *)
(* two suspension points, and every timer or event callback, runs to       *)
(* completion as one step.  A frame (the two res.write calls of one SSE    *)
(* event) is delivered whole or, when a write throws, not at all.          *)
(***************************************************************************)

\* cap on the number of generateTick() calls
MaxGen == 3

\* outcomes of addNoise(0.02) tried in the stream: 0 and one sigma
StreamNoise == {0, 2}

\* clock readings tried in the stream, as offsets from the reading at process start
StreamClockOffsets == {2001}

SeqToSet(q) == { q[i] : i \in DOMAIN q }

\* Set.delete of every member of S, keeping the insertion order of the rest
Remove(q, S) == SelectSeq(q, LAMBDA x : x \notin S)

\* Simulator.toTickData(tickResult) on a Simulator in state s
toTickData(s, tickResult) ==
    [run_id       |-> s.runId,
     timestamp    |-> tickResult.timestamp,
     total_value  |-> tickResult.total_value,
     part1_value  |-> tickResult.part1_value,
     part2_value  |-> tickResult.part2_value,
     target_price |-> tickResult.target]

\* formatTickForStream: toFixed(8) and toFixed(4) leave the fixed-point values of
\* the model as they are (they have at most 7, resp. 4, decimals)
formatTickForStream(tickResult, clientCount) ==
    [timestamp       |-> tickResult.timestamp,
     total_value     |-> tickResult.total_value,
     part1_value     |-> tickResult.part1_value,
     part2_value     |-> tickResult.part2_value,
     target          |-> tickResult.target,
     bounds          |-> tickResult.bounds,
     pct_from_target |-> tickResult.pct_from_target,
     client_count    |-> clientCount]

ConnectedFrame(clientCount) == [type |-> "connected", clientCount |-> clientCount]

\* seq: the number of the generateTick() call that produced the tick
TickFrame(seq, streamData) == [type |-> "tick", seq |-> seq, data |-> streamData]

ShutdownFrame == [type |-> "shutdown"]

ErrorResponse == [type |-> "error500"]

\* frames written to the transport of c reach the client unless its connection is gone
Deliver(rcv, c, frames) ==
    IF c \in closed THEN rcv ELSE [rcv EXCEPT ![c] = @ \o frames]

\* rows the store may hold when the process starts
DbSettings ==
    { [run_id |-> "run0", target_price |-> 100, split_part1 |-> 60000,
       split_part2 |-> 40000, is_paused |-> p] : p \in BOOLEAN }

DbTicks ==
    { NULL,
      [run_id |-> "run0", timestamp |-> 0, total_value |-> 102,
       part1_value |-> 6120000, part2_value |-> 4080000, target_price |-> 100] }

\* initialState of initializeSimulator (lines 161-174)
InitialState(stg, tick) ==
    [currentValue |-> IF tick # NULL /\ tick.total_value # 0
                      THEN tick.total_value ELSE stg.target_price,
     target       |-> stg.target_price,
     bounds       |-> [lower |-> Quot(stg.target_price * 95, 100),
                       upper |-> Quot(stg.target_price * 105, 100)],
     splits       |-> [part1 |-> stg.split_part1, part2 |-> stg.split_part2],
     isRunning    |-> ~stg.is_paused,
     runId        |-> stg.run_id]

StreamInit ==
    /\ state = NULL
    /\ ret = NULL /\ thrown = FALSE /\ lastOp = "new" /\ pausedTicks = 0
    /\ now = StartTime
    /\ CacheIdle
    /\ \E stg \in DbSettings \cup {NULL}, tick \in DbTicks :
          db = [settings |-> stg, latestTick |-> tick]
    /\ globalSimulator = 0 /\ simulationInterval = 0
    /\ timers = {} /\ timerSeq = 0
    /\ connectedClients = <<>>
    /\ pc = [c \in Clients |-> "new"]
    /\ fetched = [c \in Clients |-> NULL]
    /\ writableEnded = {} /\ closed = {}
    /\ received = [c \in Clients |-> <<>>]
    /\ gen = 0 /\ failed = {}
    /\ keepAlive = {} /\ uncaught = FALSE
    /\ CtlIdle

\* startSimulation (lines 189-196): creates the interval timer unless one is recorded
startSimulation ==
    IF simulationInterval # 0
    THEN UNCHANGED <<simulationInterval, timers, timerSeq>>
    ELSE /\ timerSeq' = timerSeq + 1
         /\ simulationInterval' = timerSeq + 1
         /\ timers' = timers \cup {timerSeq + 1}

\* handler, lines 74-131, for the response c, with the live Simulator in state s:
\* add to the set, send `connected`, generate and send a tick, start the loop,
\* register the close handlers and the heartbeat timer.  A write that throws
\* ends the handler in its catch block (lines 133-145), with c left in the set:
\* writeHead(500) throws in turn when the headers have been sent, as they have
\* once the `connected` frame is written; otherwise the response is ended.
Attach(c, s) ==
    /\ connectedClients' = IF c \in SeqToSet(connectedClients) THEN connectedClients
                           ELSE Append(connectedClients, c)
    /\ \E outcome \in {"ok", "connectedThrows", "tickThrows"} :
          IF outcome = "connectedThrows"
          THEN /\ state' = s
               /\ UNCHANGED <<gen, simulationInterval, timers, timerSeq, keepAlive>>
               /\ \E headersSent \in BOOLEAN :
                     IF headersSent
                     THEN UNCHANGED <<received, writableEnded>>
                     ELSE /\ received' = Deliver(received, c, <<ErrorResponse>>)
                          /\ writableEnded' = writableEnded \cup {c}
               /\ pc' = [pc EXCEPT ![c] = "failed"]
               /\ ret' = NULL
          ELSE /\ gen < MaxGen
               /\ \E noise \in StreamNoise : state' = generateTick(s, noise)
               /\ gen' = gen + 1
               /\ LET currentTick == getCurrentTickData(state', now)
                      tickData    == formatTickForStream(currentTick, Len(connectedClients'))
                      hello       == ConnectedFrame(Len(connectedClients'))
                  IN  IF outcome = "tickThrows"
                      THEN /\ received' = Deliver(received, c, <<hello>>)
                           /\ UNCHANGED <<simulationInterval, timers, timerSeq, keepAlive>>
                           /\ pc' = [pc EXCEPT ![c] = "failed"]
                      ELSE /\ received' = Deliver(received, c,
                                                  <<hello, TickFrame(gen', tickData)>>)
                           /\ IF simulationInterval = 0 THEN startSimulation
                              ELSE UNCHANGED <<simulationInterval, timers, timerSeq>>
                           /\ keepAlive' = keepAlive \cup {c}
                           /\ pc' = [pc EXCEPT ![c] = "open"]
               /\ writableEnded' = writableEnded
               /\ ret' = NULL
    /\ thrown' = FALSE /\ lastOp' = "attach"
    /\ failed' = {}
    /\ UNCHANGED <<ctlVars, uncaught, pausedTicks, now, db, closed>>

\* handler up to its first await (lines 26-72).  With a Simulator in place the
\* handler has no await and attaches at once; otherwise initializeSimulator
\* starts with cachedClient.getLatestSettings(), which consults the cache.
HandlerBegin(c) ==
    /\ pc[c] = "new"
    /\ IF globalSimulator # 0
       THEN /\ Attach(c, state)
            /\ UNCHANGED <<globalSimulator, fetched, cacheVars>>
       ELSE /\ IF isSettingsExpired(lastSettingsUpdate, now)
               THEN /\ settings' = NULL
                    /\ pc' = [pc EXCEPT ![c] = "fetchSettings"]
                    /\ fetched' = [fetched EXCEPT ![c] = [settings |-> NULL, latestTick |-> NULL]]
               ELSE /\ settings' = settings
                    /\ pc' = [pc EXCEPT ![c] = IF settings # NULL THEN "gotSettings"
                                                ELSE "fetchSettings"]
                    /\ fetched' = [fetched EXCEPT ![c] = [settings |-> settings, latestTick |-> NULL]]
            /\ ret' = NULL /\ thrown' = FALSE /\ lastOp' = "handler"
            /\ UNCHANGED <<ctlVars, keepAlive, uncaught, state, pausedTicks, now, latestTick, lastTickUpdate,
                           lastSettingsUpdate, hist, db, globalSimulator,
                           simulationInterval, timers, timerSeq, connectedClients,
                           writableEnded, closed, received, gen>>
            /\ failed' = {}

\* initializeSimulator resumes with the settings (line 153) and calls
\* cachedClient.getLatestTick() (line 154), which consults the cache
HandlerSettings(c) ==
    /\ pc[c] \in {"gotSettings", "fetchSettings"}
    /\ LET stg == IF pc[c] = "gotSettings" THEN fetched[c].settings ELSE db.settings
       IN  /\ IF pc[c] = "fetchSettings" /\ stg # NULL
              THEN /\ settings' = stg
                   /\ lastSettingsUpdate' = now
                   /\ hist' = [hist EXCEPT !.settings = [value |-> stg, at |-> now]]
              ELSE UNCHANGED <<settings, lastSettingsUpdate, hist>>
           /\ IF isTickExpired(lastTickUpdate, now)
              THEN /\ latestTick' = NULL
                   /\ pc' = [pc EXCEPT ![c] = "fetchTick"]
                   /\ fetched' = [fetched EXCEPT ![c] = [settings |-> stg, latestTick |-> NULL]]
              ELSE /\ latestTick' = latestTick
                   /\ pc' = [pc EXCEPT ![c] = IF latestTick # NULL THEN "gotTick"
                                                ELSE "fetchTick"]
                   /\ fetched' = [fetched EXCEPT ![c] = [settings |-> stg, latestTick |-> latestTick]]
    /\ ret' = NULL /\ thrown' = FALSE /\ lastOp' = "handler"
    /\ failed' = {}
    /\ UNCHANGED <<ctlVars, keepAlive, uncaught, state, pausedTicks, now, lastTickUpdate, db, globalSimulator,
                   simulationInterval, timers, timerSeq, connectedClients,
                   writableEnded, closed, received, gen>>

\* initializeSimulator resumes with the latest tick (line 154), builds the
\* Simulator (lines 156-176) and the handler attaches (lines 74-131); without
\* settings it throws and the handler answers 500 (lines 133-145)
HandlerTick(c) ==
    /\ pc[c] \in {"gotTick", "fetchTick"}
    /\ LET stg  == fetched[c].settings
           tick == IF pc[c] = "gotTick" THEN fetched[c].latestTick ELSE db.latestTick
       IN  /\ IF pc[c] = "fetchTick" /\ tick # NULL
              THEN /\ latestTick' = tick
                   /\ lastTickUpdate' = now
                   /\ hist' = [hist EXCEPT !.tick = [value |-> tick, at |-> now]]
              ELSE UNCHANGED <<latestTick, lastTickUpdate, hist>>
           /\ fetched' = [fetched EXCEPT ![c] = NULL]
           /\ IF stg = NULL
              THEN /\ pc' = [pc EXCEPT ![c] = "error"]
                   /\ received' = Deliver(received, c, <<ErrorResponse>>)
                   /\ writableEnded' = writableEnded \cup {c}
                   /\ ret' = NULL /\ thrown' = TRUE /\ lastOp' = "handler"
                   /\ UNCHANGED <<ctlVars, keepAlive, uncaught, state, pausedTicks, now, db, globalSimulator,
                                  simulationInterval, timers, timerSeq,
                                  connectedClients, closed, gen>>
                   /\ failed' = {}
              ELSE /\ globalSimulator' = globalSimulator + 1
                   /\ Attach(c, Simulator(InitialState(stg, tick)))
    /\ UNCHANGED <<settings, lastSettingsUpdate>>

\* position of c in the insertion order of the set
Pos(q, c) == CHOOSE i \in DOMAIN q : q[i] = c

\* a loop whose broadcast has no per-client try/catch: the first write that
\* throws ends the iteration, nobody after that client is written to
SimulationLoop_AbortsOnFailure ==
    /\ \E t \in timers : TRUE
    /\ globalSimulator # 0
    /\ gen < MaxGen
    /\ \E noise \in StreamNoise : state' = generateTick(state, noise)
    /\ gen' = gen + 1
    /\ LET tickResult == getCurrentTickData(state', now)
           tickData   == toTickData(state', tickResult)
           streamData == formatTickForStream(tickResult, Len(connectedClients))
           targets    == SeqToSet(connectedClients) \ writableEnded
       IN  /\ latestTick' = tickData
           /\ lastTickUpdate' = now
           /\ hist' = [hist EXCEPT !.tick = [value |-> tickData, at |-> now]]
           /\ \E F \in SUBSET targets :
                 /\ failed' = F
                 /\ connectedClients' = connectedClients
                 /\ received' = [c \in Clients |->
                        IF /\ c \in targets \ F
                           /\ \A f \in F : Pos(connectedClients, c) < Pos(connectedClients, f)
                        THEN Deliver(received, c, <<TickFrame(gen', streamData)>>)[c]
                        ELSE received[c]]
    /\ ret' = NULL /\ thrown' = FALSE /\ lastOp' = "loop"
    /\ UNCHANGED <<ctlVars, keepAlive, uncaught, pausedTicks, now, db, globalSimulator, simulationInterval, timers,
                   timerSeq, pc, fetched, writableEnded, closed, settings,
                   lastSettingsUpdate>>

\* a loop that broadcasts the tick it held before stepping the Simulator
SimulationLoop_BroadcastsStaleTick ==
    /\ \E t \in timers : TRUE
    /\ globalSimulator # 0
    /\ gen < MaxGen
    /\ \E noise \in StreamNoise : state' = generateTick(state, noise)
    /\ gen' = gen + 1
    /\ LET tickResult == getCurrentTickData(state', now)
           tickData   == toTickData(state', tickResult)
           staleData  == formatTickForStream(getCurrentTickData(state, now),
                                             Len(connectedClients))
           targets    == SeqToSet(connectedClients) \ writableEnded
       IN  /\ latestTick' = tickData
           /\ lastTickUpdate' = now
           /\ hist' = [hist EXCEPT !.tick = [value |-> tickData, at |-> now]]
           /\ \E F \in SUBSET targets :
                 /\ failed' = F
                 /\ connectedClients' = Remove(connectedClients, F)
                 /\ received' = [c \in Clients |->
                        IF c \in targets \ F
                        THEN Deliver(received, c, <<TickFrame(gen, staleData)>>)[c]
                        ELSE received[c]]
    /\ ret' = NULL /\ thrown' = FALSE /\ lastOp' = "loop"
    /\ UNCHANGED <<ctlVars, keepAlive, uncaught, pausedTicks, now, db, globalSimulator, simulationInterval, timers,
                   timerSeq, pc, fetched, writableEnded, closed, settings,
                   lastSettingsUpdate>>

\* the setInterval callback (lines 196-251) of an active timer
SimulationLoop ==
    /\ \E t \in timers : TRUE
    /\ IF globalSimulator = 0
       THEN /\ ret' = NULL /\ failed' = {}
            /\ UNCHANGED <<state, cacheVars, connectedClients, received, gen>>
       ELSE /\ gen < MaxGen
            /\ \E noise \in StreamNoise : state' = generateTick(state, noise)
            /\ gen' = gen + 1
            /\ LET tickResult == getCurrentTickData(state', now)
                   tickData   == toTickData(state', tickResult)
                   streamData == formatTickForStream(tickResult, Len(connectedClients))
                   targets    == SeqToSet(connectedClients) \ writableEnded
               IN  /\ latestTick' = tickData
                   /\ lastTickUpdate' = now
                   /\ hist' = [hist EXCEPT !.tick = [value |-> tickData, at |-> now]]
                   /\ \E F \in SUBSET targets :
                         /\ failed' = F
                         /\ connectedClients' = Remove(connectedClients, F)
                         /\ received' = [c \in Clients |->
                                IF c \in targets \ F
                                THEN Deliver(received, c, <<TickFrame(gen', streamData)>>)[c]
                                ELSE received[c]]
                   /\ ret' = NULL
            /\ UNCHANGED <<settings, lastSettingsUpdate>>
    /\ thrown' = FALSE /\ lastOp' = "loop"
    /\ UNCHANGED <<ctlVars, keepAlive, uncaught, pausedTicks, now, db, globalSimulator, simulationInterval, timers,
                   timerSeq, pc, fetched, writableEnded, closed>>

\* a SIGTERM handler that notifies without a per-client try/catch: the first
\* write that throws ends the handler, before the set is cleared
Sigterm_AbortsOnFailure ==
    /\ IF simulationInterval # 0
       THEN timers' = timers \ {simulationInterval} /\ simulationInterval' = 0
       ELSE UNCHANGED <<timers, simulationInterval>>
    /\ LET targets == SeqToSet(connectedClients) \ writableEnded
       IN  \E F \in SUBSET targets :
              LET reached == { c \in targets \ F :
                                 \A f \in F : Pos(connectedClients, c) < Pos(connectedClients, f) }
              IN  /\ failed' = F
                  /\ received' = [c \in Clients |->
                         IF c \in reached
                         THEN Deliver(received, c, <<ShutdownFrame>>)[c]
                         ELSE received[c]]
                  /\ writableEnded' = writableEnded \cup reached
                  /\ connectedClients' = IF F = {} THEN <<>> ELSE connectedClients
    /\ ret' = NULL /\ thrown' = FALSE /\ lastOp' = "SIGTERM"
    /\ UNCHANGED <<ctlVars, keepAlive, uncaught, state, pausedTicks, now, cacheVars, db, globalSimulator, timerSeq,
                   pc, fetched, closed, gen>>

\* a SIGTERM handler that forgets clearInterval and only drops the handle
Sigterm_LeaksTimer ==
    /\ timers' = timers /\ simulationInterval' = 0
    /\ LET targets == SeqToSet(connectedClients) \ writableEnded
       IN  \E F \in SUBSET targets :
              /\ failed' = F
              /\ received' = [c \in Clients |->
                     IF c \in targets \ F
                     THEN Deliver(received, c, <<ShutdownFrame>>)[c]
                     ELSE received[c]]
              /\ writableEnded' = writableEnded \cup (targets \ F)
    /\ connectedClients' = <<>>
    /\ ret' = NULL /\ thrown' = FALSE /\ lastOp' = "SIGTERM"
    /\ UNCHANGED <<ctlVars, keepAlive, uncaught, state, pausedTicks, now, cacheVars, db, globalSimulator, timerSeq,
                   pc, fetched, closed, gen>>

\* process.on('SIGTERM') (lines 277-299)
Sigterm ==
    /\ IF simulationInterval # 0
       THEN timers' = timers \ {simulationInterval} /\ simulationInterval' = 0
       ELSE UNCHANGED <<timers, simulationInterval>>
    /\ LET targets == SeqToSet(connectedClients) \ writableEnded
       IN  \E F \in SUBSET targets :
              /\ failed' = F
              /\ received' = [c \in Clients |->
                     IF c \in targets \ F
                     THEN Deliver(received, c, <<ShutdownFrame>>)[c]
                     ELSE received[c]]
              /\ writableEnded' = writableEnded \cup (targets \ F)
    /\ connectedClients' = <<>>
    /\ ret' = NULL /\ thrown' = FALSE /\ lastOp' = "SIGTERM"
    /\ UNCHANGED <<ctlVars, keepAlive, uncaught, state, pausedTicks, now, cacheVars, db, globalSimulator, timerSeq,
                   pc, fetched, closed, gen>>

\* a close listener that stops the loop when the last observer has gone
Disconnect_StopsLoopWhenEmpty(c) ==
    /\ pc[c] # "new" /\ c \notin closed
    /\ closed' = closed \cup {c}
    /\ keepAlive' = keepAlive \ {c}
    /\ connectedClients' = IF pc[c] = "open" THEN Remove(connectedClients, {c})
                           ELSE connectedClients
    /\ IF pc[c] = "open" /\ connectedClients' = <<>>
       THEN timers' = timers \ {simulationInterval} /\ simulationInterval' = 0
       ELSE UNCHANGED <<timers, simulationInterval>>
    /\ ret' = NULL /\ thrown' = FALSE /\ lastOp' = "close"
    /\ UNCHANGED <<ctlVars, uncaught, state, pausedTicks, now, cacheVars, db, globalSimulator,
                   timerSeq, pc, fetched, writableEnded, received, gen>>
    /\ failed' = {}

\* the client of c goes away: 'close' is emitted on req and res, and the
\* listeners, registered once the handler has attached (lines 99-131), run
Disconnect(c) ==
    /\ pc[c] # "new" /\ c \notin closed
    /\ closed' = closed \cup {c}
    /\ keepAlive' = keepAlive \ {c}
    /\ connectedClients' = IF pc[c] = "open" THEN Remove(connectedClients, {c})
                           ELSE connectedClients
    /\ ret' = NULL /\ thrown' = FALSE /\ lastOp' = "close"
    /\ UNCHANGED <<ctlVars, uncaught, state, pausedTicks, now, cacheVars, db, globalSimulator,
                   simulationInterval, timers, timerSeq, pc, fetched, writableEnded,
                   received, gen>>
    /\ failed' = {}

\* time passes while the stream is served
StreamAdvanceClock ==
    /\ \E d \in StreamClockOffsets : StartTime + d > now /\ now' = StartTime + d
    /\ lastOp' = "clock"
    /\ ret' = NULL /\ thrown' = FALSE /\ failed' = {}
    /\ UNCHANGED <<ctlVars, keepAlive, uncaught, state, pausedTicks, cacheVars, db, globalSimulator,
                   simulationInterval, timers, timerSeq, connectedClients, pc,
                   fetched, writableEnded, closed, received, gen>>

StreamNext ==
    \/ \E c \in Clients : HandlerBegin(c)
    \/ \E c \in Clients : HandlerSettings(c)
    \/ \E c \in Clients : HandlerTick(c)
    \/ SimulationLoop
    \/ Sigterm
    \/ \E c \in Clients : Disconnect(c)
    \/ StreamAdvanceClock

SpecStream == StreamInit /\ [][StreamNext]_vars

(***************************************************************************)
(* Properties of the stream broadcaster, checked under SpecStream          *)
(***************************************************************************)

\* the tick frames delivered to c, in order of delivery
TicksOf(c) == SelectSeq(received[c], LAMBDA f : f.type = "tick")

LastFrame(q) == q[Len(q)]

\* C2: once started, the loop keeps generating whatever observers attach or
\* detach, also with an empty observer set: only SIGTERM removes its timer, the
\* timer callback can always run and each run generates a tick; an observer
\* that attaches is sent the tick generated by its own attach, not an older one.
C2_LoopOutlivesObservers ==
    /\ []( (timers # {} /\ gen < MaxGen) => ENABLED SimulationLoop )
    /\ [][ /\ lastOp' # "SIGTERM" =>
                /\ timers \subseteq timers'
                /\ simulationInterval # 0 => simulationInterval' = simulationInterval
           /\ lastOp' = "loop" => gen' = gen + 1
           /\ \A c \in Clients :
                (pc[c] # "open" /\ pc'[c] = "open") =>
                    /\ gen' = gen + 1
                    /\ timers' # {}
                    /\ c \notin closed =>
                          /\ received'[c] # <<>>
                          /\ LastFrame(received'[c]).type = "tick"
                          /\ LastFrame(received'[c]).seq = gen'
                          /\ LastFrame(received'[c]).data.total_value = state'.currentValue
                          /\ LastFrame(received'[c]).data.timestamp = now
         ]_vars

\* client 1 attached and detached, the loop ran on the empty set, then client 2
\* attached and was sent the third tick
C2_Witness ==
    /\ db.latestTick = NULL /\ latestTick # NULL
    /\ closed = {1} /\ pc[1] = "open" /\ Len(received[1]) = 2
    /\ lastOp = "attach" /\ pc[2] = "open"
    /\ connectedClients = <<2>>
    /\ Len(received[2]) = 2 /\ received[2][2].type = "tick" /\ received[2][2].seq = 3
    /\ timers # {}

\* C3: in a loop iteration, a write failure on one observer does not stop the
\* broadcast: every other attached observer with a writable transport gets the
\* tick of that iteration.
C3_BroadcastIsolatesFailures ==
    [][ lastOp' = "loop" =>
          \A c \in SeqToSet(connectedClients) :
             (c \notin writableEnded /\ c \notin closed /\ c \notin failed') =>
                 /\ Len(received'[c]) = Len(received[c]) + 1
                 /\ SubSeq(received'[c], 1, Len(received[c])) = received[c]
                 /\ LastFrame(received'[c]).type = "tick"
                 /\ LastFrame(received'[c]).seq = gen'
                 /\ LastFrame(received'[c]).data.total_value = state'.currentValue
      ]_vars

\* the write to client 1, first in the set, threw and client 2 got the tick
C3_Witness ==
    /\ lastOp = "loop" /\ failed = {1}
    /\ connectedClients = <<2>>
    /\ received[2] # <<>>
    /\ LastFrame(received[2]).type = "tick"
    /\ LastFrame(received[2]).seq = gen
    /\ \A i \in DOMAIN received[1] : received[1][i].type = "tick" => received[1][i].seq < gen

\* C6: every observer is sent ticks in the order they were generated, the
\* snapshot tick of its attach and the ticks of the loop alike.
C6_TicksInGenerationOrder ==
    \A c \in Clients :
       \A i, j \in DOMAIN TicksOf(c) :
          i < j => TicksOf(c)[i].seq < TicksOf(c)[j].seq

\* both clients got their snapshot tick and then a tick of the loop
C6_Witness ==
    /\ Len(TicksOf(1)) = 2 /\ Len(TicksOf(2)) = 2
    /\ TicksOf(1)[1].seq # TicksOf(2)[1].seq
    /\ TicksOf(1)[2].seq = 3 /\ TicksOf(2)[2].seq = 3

\* C7: on SIGTERM the loop is stopped, every attached observer whose transport
\* is writable is sent a shutdown frame and ended, a failure on one observer
\* does not keep the others from being notified, and the set is empty after.
C7_ShutdownNotifiesAll ==
    [][ lastOp' = "SIGTERM" =>
          /\ timers' = {} /\ simulationInterval' = 0
          /\ connectedClients' = <<>>
          /\ \A c \in SeqToSet(connectedClients) :
                (c \notin writableEnded /\ c \notin failed') =>
                    /\ c \in writableEnded'
                    /\ c \notin closed => received'[c] = Append(received[c], ShutdownFrame)
      ]_vars

\* notifying client 1, first in the set, failed and client 2 got the frame
C7_Witness ==
    /\ lastOp = "SIGTERM" /\ failed = {1}
    /\ timerSeq = 1 /\ timers = {}
    /\ 2 \in writableEnded /\ 1 \notin writableEnded
    /\ received[2] # <<>> /\ LastFrame(received[2]) = ShutdownFrame
    /\ pc[1] = "open" /\ pc[2] = "open"

\* C8: at most one loop timer is active at any time, however many observers
\* attach and however their handlers interleave.
C8_SingleLoop ==
    /\ Cardinality(timers) <= 1
    /\ timers = IF simulationInterval = 0 THEN {} ELSE {simulationInterval}

\* both handlers went through initializeSimulator, overlapping, and a second
\* loop was started after a shutdown
C8_Witness ==
    /\ globalSimulator = 2
    /\ pc[1] = "open" /\ pc[2] = "open"
    /\ timerSeq = 2 /\ timers = {2}

(***************************************************************************)
(* SpecObserver: the stream with the heartbeat timer of an observer and    *)
(* with loop iterations in which an exception is raised.  An exception     *)
(* that leaves a timer callback is an uncaughtException of the process,    *)
(* for which the program registers no handler; `uncaught` records it.      *)
(* One observer is followed.                                               *)
(***************************************************************************)

\* cap on the heartbeat frames delivered to one client
MaxBeats == 1

HeartbeatFrame == [type |-> "heartbeat"]

\* the heartbeat frames delivered to c
BeatsOf(c) == SelectSeq(received[c], LAMBDA f : f.type = "heartbeat")

\* the keepAlive callback of c (lines 115-125): a response that has been ended
\* is dropped and its timer cleared; otherwise a heartbeat frame is written,
\* outside any try block
Heartbeat(c) ==
    /\ c \in keepAlive
    /\ IF c \in writableEnded
       THEN /\ keepAlive' = keepAlive \ {c}
            /\ connectedClients' = Remove(connectedClients, {c})
            /\ failed' = {}
            /\ UNCHANGED <<received, uncaught>>
       ELSE /\ \E throws \in BOOLEAN :
                  IF throws
                  THEN /\ uncaught' = TRUE
                       /\ failed' = {c}
                       /\ received' = received
                  ELSE /\ Len(BeatsOf(c)) < MaxBeats
                       /\ received' = Deliver(received, c, <<HeartbeatFrame>>)
                       /\ failed' = {}
                       /\ uncaught' = uncaught
            /\ UNCHANGED <<keepAlive, connectedClients>>
    /\ ret' = NULL /\ thrown' = (c \in failed') /\ lastOp' = "heartbeat"
    /\ UNCHANGED <<ctlVars, state, pausedTicks, now, cacheVars, db, globalSimulator,
                   simulationInterval, timers, timerSeq, pc, fetched, writableEnded,
                   closed, gen>>

\* a loop whose timer does not survive an exception raised in an iteration
SimulationLoopThrows_StopsLoop ==
    /\ \E t \in timers : TRUE
    /\ globalSimulator # 0
    /\ gen < MaxGen
    /\ \E noise \in StreamNoise : state' = generateTick(state, noise)
    /\ gen' = gen + 1
    /\ LET tickData == toTickData(state', getCurrentTickData(state', now))
       IN  /\ latestTick' = tickData
           /\ lastTickUpdate' = now
           /\ hist' = [hist EXCEPT !.tick = [value |-> tickData, at |-> now]]
    /\ timers' = timers \ {simulationInterval} /\ simulationInterval' = 0
    /\ ret' = NULL /\ thrown' = TRUE /\ lastOp' = "loopThrows" /\ failed' = {}
    /\ UNCHANGED <<ctlVars, keepAlive, uncaught, pausedTicks, now, db, globalSimulator,
                   timerSeq, connectedClients, pc, fetched,
                   writableEnded, closed, received, settings, lastSettingsUpdate>>

\* the setInterval callback (lines 196-251) when a statement of its try block
\* past the cache update throws: the tick has been generated and cached, the
\* catch block (lines 248-250) logs, nothing is broadcast
SimulationLoopThrows ==
    /\ \E t \in timers : TRUE
    /\ globalSimulator # 0
    /\ gen < MaxGen
    /\ \E noise \in StreamNoise : state' = generateTick(state, noise)
    /\ gen' = gen + 1
    /\ LET tickData == toTickData(state', getCurrentTickData(state', now))
       IN  /\ latestTick' = tickData
           /\ lastTickUpdate' = now
           /\ hist' = [hist EXCEPT !.tick = [value |-> tickData, at |-> now]]
    /\ ret' = NULL /\ thrown' = TRUE /\ lastOp' = "loopThrows" /\ failed' = {}
    /\ UNCHANGED <<ctlVars, keepAlive, uncaught, pausedTicks, now, db, globalSimulator,
                   simulationInterval, timers, timerSeq, connectedClients, pc, fetched,
                   writableEnded, closed, received, settings, lastSettingsUpdate>>

\* the clients that connect in SpecObserver
ObserverClients == {1}

ObserverInit == StreamInit

ObserverNext ==
    \/ \E c \in ObserverClients : HandlerBegin(c)
    \/ \E c \in ObserverClients : HandlerSettings(c)
    \/ \E c \in ObserverClients : HandlerTick(c)
    \/ SimulationLoop
    \/ SimulationLoopThrows
    \/ \E c \in ObserverClients : Heartbeat(c)
    \/ Sigterm
    \/ \E c \in ObserverClients : Disconnect(c)
    \/ StreamAdvanceClock

SpecObserver == ObserverInit /\ [][ObserverNext]_vars

(***************************************************************************)
(* Properties of the stream, checked under SpecStream and SpecObserver     *)
(***************************************************************************)

\* C22: an exception raised inside a loop iteration is caught within that
\* iteration and does not end the loop: nothing is left uncaught, the timer
\* stays, its next callback can run, and when it runs it generates a tick.
C22_LoopSurvivesException ==
    /\ []( lastOp = "loopThrows" =>
              /\ timers # {} /\ simulationInterval \in timers
              /\ gen < MaxGen => ENABLED SimulationLoop )
    /\ [][ /\ lastOp' = "loopThrows" =>
                 /\ uncaught' = uncaught
                 /\ timers' = timers /\ simulationInterval' = simulationInterval
                 /\ connectedClients' = connectedClients
           /\ (lastOp = "loopThrows" /\ lastOp' = "loop") =>
                 /\ gen' = gen + 1
                 /\ latestTick'.total_value = state'.currentValue ]_vars

\* an iteration threw with the observer attached and a tick still to come
C22_Witness ==
    /\ lastOp = "loopThrows" /\ thrown
    /\ connectedClients = <<1>> /\ pc[1] = "open"
    /\ latestTick # NULL /\ latestTick.total_value = state.currentValue
    /\ timers # {} /\ gen < MaxGen

\* C24: a write error on one observer's transport, on a connected, tick,
\* heartbeat or shutdown frame, stays with that observer: no exception
\* leaves a callback uncaught.
C24_WriteErrorsContained == ~uncaught

\* C21: every iteration of the generation loop hands the tick it generated to
\* the persistence client for a durable append (a write that may fail or be
\* late without holding up the broadcast): after the iteration the tick is
\* among the rows of the ticks table or on its way there.  The callback makes
\* no call of the persistence client, so there is no write on its way.
C21_LoopPersistsTick ==
    [][ (lastOp' = "loop" /\ gen' = gen + 1) =>
            \E i \in DOMAIN store'.ticks : store'.ticks[i] = latestTick' ]_vars

\* C23: after a broadcast the set holds no observer whose write failed in that
\* broadcast and no observer whose transport the broadcast found ended.
C23_BroadcastPrunesDeadObservers ==
    [][ (lastOp' = "loop" /\ gen' = gen + 1) =>
            \A c \in SeqToSet(connectedClients') :
                c \notin failed' /\ c \notin writableEnded' ]_vars

\* C25: generateTick is invoked at most once per period.  While the loop's
\* timer is active it invokes generateTick once each period, so no attach
\* made meanwhile may invoke it again.
C25_StepOnlyOncePerPeriod ==
    [][ (lastOp' = "attach" /\ timers # {}) => gen' = gen ]_vars

\* C26: the ticks of a run have strictly increasing timestamps: the tick an
\* attach generates carries a later timestamp than every tick generated
\* before it (iterations of the loop are a period apart).
C26_TimestampsStrictlyIncrease ==
    [][ (lastOp' = "attach" /\ gen' = gen + 1) =>
            \A c \in Clients : \A i \in DOMAIN received[c] :
                received[c][i].type = "tick" =>
                    received[c][i].data.timestamp < getCurrentTickData(state', now).timestamp
      ]_vars

\* C31: the Simulator is constructed at most once in the life of the process:
\* attaches that come later, and attaches that overlap the first one while
\* initializeSimulator awaits the store, use the instance already made and
\* never put another in its place.
C31_SimulatorInitialisedOnce == globalSimulator <= 1

\* C37: once the SIGTERM handler has run no tick is generated, cached or
\* pushed any more, and no loop timer is started, whatever comes next (an
\* observer that attaches, a handler that was awaiting the store).
C37_NoTickAfterShutdown ==
    [][ lastOp = "SIGTERM" =>
            /\ gen' = gen
            /\ latestTick' = latestTick
            /\ timers' = {}
            /\ \A c \in Clients :
                  Len(received'[c]) > Len(received[c]) =>
                      received'[c][Len(received'[c])].type # "tick" ]_vars

(***************************************************************************)
(* Persistence client, its cache wrapper and the control endpoint          *)
(* (SupabaseDatabaseClient in src/dist/src/db/example.js,                  *)
(* CachedDatabaseClient in src/dist/src/db/cached-client.js, POST          *)
(* /api/control in src/unnamed/part_011)                                   *)
(*                                                                         *)
(* One step is one statement sent to the store together with the code      *)
(* that runs when its answer arrives, up to the next statement.  A         *)
(* statement either succeeds and takes effect, or fails without effect.    *)
(* Rows of the settings table are kept in creation order and a row's id is *)
(* its position; created_at and updated_at are not represented.            *)
(***************************************************************************)

\* SupabaseDatabaseClient.maxRetries
maxRetries == 3

\* outcomes of randomBytes(4).toString('hex')
RandomSuffixes == {"0a1b2c3d", "f3e2d1c0"}

\* the body of a control request
ControlActions == {"pause", "resume", "reset", "restart"}

\* number of requests made to the endpoint
MaxRequests == 2

\* clock readings, as offsets from the reading at process start: past the
\* settings TTL (and in a later second)
ControlClockOffsets == {30001}

\* generateRunId() at Date.now() = t: date and time of day cut to the second,
\* then the random suffix
generateRunId(t, randomStr) == ToString(t \div 1000) \o "-" \o randomStr

\* validateControlPayload(req.body).isValid
validateControlPayload(action) == action \in {"pause", "resume", "reset"}

\* the row inserted by initializeDefaultSettings(runId): target 100.0, weights 0.5
DefaultSettings(id, runId) ==
    [id |-> id, run_id |-> runId, target_price |-> 10000,
     split_part1 |-> 50000, split_part2 |-> 50000, is_paused |-> FALSE]

\* settings rows the store may hold when the process starts
InitialSettings ==
    { [id |-> 1, run_id |-> "run0", target_price |-> t,
       split_part1 |-> 60000, split_part2 |-> 40000, is_paused |-> p] :
         t \in {200}, p \in BOOLEAN }

\* select * from settings [where run_id = runId] order by created_at desc limit 1;
\* no row (PGRST116) gives null
SelectLatestSettings(rows, runId) ==
    LET hits == { i \in DOMAIN rows : runId = NoRunId \/ rows[i].run_id = runId }
    IN  IF hits = {} THEN NULL
        ELSE rows[CHOOSE i \in hits : \A j \in hits : j <= i]

\* update settings set ...updates where id = id
UpdateSettingsRow(rows, id, updates) ==
    [rows EXCEPT ![id] = [f \in DOMAIN rows[id] |->
                            IF f \in DOMAIN updates THEN updates[f] ELSE rows[id][f]]]

\* res.status(status).json({code, ...}): the handler returns and the state of
\* its client call is gone
Respond(q, status, code) ==
    [q EXCEPT !.pc = "done", !.response = [status |-> status, code |-> code],
              !.updates = NULL, !.current = NULL,
              !.attempt = 0, !.inner = 0, !.lookups = 0]

\* a call of a client method begins: withRetry starts with attempt = 1
StartCall(q, method, updates) ==
    [q EXCEPT !.pc = method, !.updates = updates, !.current = NULL,
              !.attempt = 1, !.inner = 1, !.lookups = 0]

\* a handler whose catch block reports success
Catch_ReportsSuccess(q) == Respond(q, 200, "OK")

\* catch (error) of the handler: 500 DATABASE_ERROR
Catch(q) == Respond(q, 500, "DATABASE_ERROR")

\* the catch block of withRetry after a failed attempt: the DatabaseError is
\* thrown on the last attempt and reaches the handler's catch; otherwise the
\* operation runs again from its first statement
withRetryCatch(q, method) ==
    IF q.attempt = maxRetries THEN Catch(q)
    ELSE [q EXCEPT !.attempt = @ + 1, !.inner = 1, !.pc = method]

\* the updates of the second step of a reset: target and weights of the
\* settings the handler read, running
CarryForward(current) ==
    [target_price |-> current.target_price, split_part1 |-> current.split_part1,
     split_part2 |-> current.split_part2, is_paused |-> FALSE]

\* a switch that calls updateSettings whatever the current state is
Dispatch_NoStateCheck(q, current, t, randomStr) ==
    IF current = NULL THEN Respond(q, 404, "NO_DATA_FOUND")
    ELSE LET q1 == [q EXCEPT !.currentSettings = current]
         IN  CASE q.action = "pause" ->
                    StartCall(q1, "updateSettings.lookup", [is_paused |-> TRUE])
               [] q.action = "resume" ->
                    StartCall(q1, "updateSettings.lookup", [is_paused |-> FALSE])
               [] q.action = "reset" ->
                    StartCall([q1 EXCEPT !.newRunId = generateRunId(t, randomStr)],
                              "initializeDefaultSettings", NULL)
               [] OTHER -> Respond(q1, 400, "VALIDATION_ERROR")

\* the handler from the settings it obtained up to its next await: the 404
\* answer, then the switch over the action
Dispatch(q, current, t, randomStr) ==
    IF current = NULL THEN Respond(q, 404, "NO_DATA_FOUND")
    ELSE LET q1 == [q EXCEPT !.currentSettings = current]
         IN  CASE q.action = "pause" ->
                    IF current.is_paused THEN Respond(q1, 400, "INVALID_STATE")
                    ELSE StartCall(q1, "updateSettings.lookup", [is_paused |-> TRUE])
               [] q.action = "resume" ->
                    IF ~current.is_paused THEN Respond(q1, 400, "INVALID_STATE")
                    ELSE StartCall(q1, "updateSettings.lookup", [is_paused |-> FALSE])
               [] q.action = "reset" ->
                    StartCall([q1 EXCEPT !.newRunId = generateRunId(t, randomStr)],
                              "initializeDefaultSettings", NULL)
               [] OTHER -> Respond(q1, 400, "VALIDATION_ERROR")

\* the bodies tried for POST /api/target: 150.00 and 0 (target_price in units of 0.01)
TargetBodies == { [target_price |-> 15000], [target_price |-> 0] }

\* the bodies tried for POST /api/split
SplitBodies == { [split_part1 |-> 70000, split_part2 |-> 30000],
                 [split_part1 |-> 50000, split_part2 |-> 60000] }

\* the checks of POST /api/target on target_price: positive, 0.01 .. 1,000,000
validateTargetPricePayload(body) ==
    body.target_price > 0 /\ body.target_price >= 1 /\ body.target_price <= 100000000

\* the checks of POST /api/split: each weight in 0 .. 1, sum within 0.0001 of 1
validateSplitPayload(body) ==
    /\ body.split_part1 >= 0 /\ body.split_part1 <= SplitOne
    /\ body.split_part2 >= 0 /\ body.split_part2 <= SplitOne
    /\ Abs(body.split_part1 + body.split_part2 - SplitOne) <= SplitTolerance

\* the target and split handlers from the settings they obtained up to their
\* next await: the 404 answer, or updateSettings with the fields of the body
UpdateFromBody(q, current) ==
    IF current = NULL THEN Respond(q, 404, "NO_DATA_FOUND")
    ELSE StartCall([q EXCEPT !.currentSettings = current], "updateSettings.lookup", q.body)

\* the handler of the request's endpoint, resumed with the settings it awaited
AfterSettings(q, current, t, randomStr) ==
    IF q.endpoint = "control" THEN Dispatch(q, current, t, randomStr)
    ELSE UpdateFromBody(q, current)

\* the record the handler of q hands to logUserAction
UserActionOf(q) ==
    CASE q.endpoint = "target" ->
            [run_id |-> q.currentSettings.run_id, action_type |-> "target_update",
             payload |-> [old_target_price |-> q.currentSettings.target_price,
                          new_target_price |-> q.body.target_price]]
      [] q.endpoint = "split" ->
            [run_id |-> q.currentSettings.run_id, action_type |-> "split_update",
             payload |-> [old_split_part1 |-> q.currentSettings.split_part1,
                          old_split_part2 |-> q.currentSettings.split_part2,
                          new_split_part1 |-> q.body.split_part1,
                          new_split_part2 |-> q.body.split_part2]]
      [] OTHER ->
            [run_id |-> IF q.action = "reset" THEN q.updatedSettings.run_id
                        ELSE q.currentSettings.run_id,
             action_type |-> "control_action",
             payload |-> [action |-> q.action]]

\* the sequence number of the next request
NextSeq ==
    1 + (CHOOSE n \in 0..MaxRequests :
            /\ \E o \in Requests : req[o].seq = n
            /\ \A o \in Requests : req[o].seq <= n)

\* the identities handed out so far, after the handler moved from q to q2
Issued(q, q2) ==
    IF q2.newRunId # q.newRunId THEN Append(generated, q2.newRunId) ELSE generated

\* what the control endpoint never touches
ctlOthers == <<state, ret, thrown, lastOp, pausedTicks, latestTick, lastTickUpdate,
               hist, streamVars>>

ControlInit ==
    /\ state = NULL
    /\ ret = NULL /\ thrown = FALSE /\ lastOp = "new" /\ pausedTicks = 0
    /\ now = StartTime
    /\ CacheIdle
    /\ StreamIdle
    /\ \E rows \in {<<>>} \cup { <<row>> : row \in InitialSettings } :
          store = [settings |-> rows, user_actions |-> <<>>,
                   ticks |-> <<>>, aggregates |-> <<>>]
    /\ req = [r \in Requests |-> IdleRequest]
    /\ generated = <<>>

\* POST /api/control arrives while no other request is being handled: the
\* handler validates the body and calls cachedClient.getLatestSettings(), which
\* answers from the cache when the cached settings have not expired
ControlBegin(r) ==
    /\ \A o \in Requests : req[o].pc \in {"idle", "done"}
    /\ \A o \in Requests : req[o].seq < MaxRequests
    /\ \E action \in ControlActions, randomStr \in RandomSuffixes :
          LET q == [IdleRequest EXCEPT !.seq = NextSeq, !.endpoint = "control",
                                       !.action = action, !.before = store]
              expired == isSettingsExpired(lastSettingsUpdate, now)
              q2 == IF ~validateControlPayload(action)
                    THEN Respond(q, 400, "VALIDATION_ERROR")
                    ELSE IF ~expired /\ settings # NULL
                    THEN Dispatch(q, settings, now, randomStr)
                    ELSE StartCall(q, "getLatestSettings", NULL)
          IN  /\ req' = [o \in Requests |-> IF o = r THEN q2 ELSE IdleRequest]
              /\ generated' = Issued(q, q2)
              /\ settings' = IF validateControlPayload(action) /\ expired
                             THEN NULL ELSE settings
    /\ UNCHANGED <<store, now, lastSettingsUpdate, ctlOthers>>

\* POST /api/target or POST /api/split arrives while no other request is being
\* handled: the handler validates the body and calls
\* cachedClient.getLatestSettings()
UpdateBegin(r) ==
    /\ \A o \in Requests : req[o].pc \in {"idle", "done"}
    /\ \A o \in Requests : req[o].seq < MaxRequests
    /\ \E endpoint \in {"target", "split"} :
       \E body \in IF endpoint = "target" THEN TargetBodies ELSE SplitBodies :
          LET q == [IdleRequest EXCEPT !.seq = NextSeq, !.endpoint = endpoint,
                                       !.action = endpoint, !.body = body,
                                       !.before = store]
              valid == IF endpoint = "target" THEN validateTargetPricePayload(body)
                       ELSE validateSplitPayload(body)
              expired == isSettingsExpired(lastSettingsUpdate, now)
              q2 == IF ~valid
                    THEN Respond(q, 400, "VALIDATION_ERROR")
                    ELSE IF ~expired /\ settings # NULL
                    THEN UpdateFromBody(q, settings)
                    ELSE StartCall(q, "getLatestSettings", NULL)
          IN  /\ req' = [o \in Requests |-> IF o = r THEN q2 ELSE IdleRequest]
              /\ settings' = IF valid /\ expired THEN NULL ELSE settings
    /\ UNCHANGED <<store, generated, now, lastSettingsUpdate, ctlOthers>>

\* databaseClient.getLatestSettings(): one select; on success the row is
\* cached and the handler goes on with the settings
ControlGetLatestSettings(r) ==
    /\ req[r].pc = "getLatestSettings"
    /\ \E ok \in BOOLEAN, randomStr \in RandomSuffixes :
          LET q == req[r]
              row == SelectLatestSettings(store.settings, NoRunId)
              q2 == IF ok THEN AfterSettings(q, row, now, randomStr)
                    ELSE withRetryCatch(q, "getLatestSettings")
          IN  /\ req' = [req EXCEPT ![r] = q2]
              /\ generated' = Issued(q, q2)
              /\ IF ok /\ row # NULL
                 THEN settings' = row /\ lastSettingsUpdate' = now
                 ELSE UNCHANGED <<settings, lastSettingsUpdate>>
    /\ UNCHANGED <<store, now, ctlOthers>>

\* initializeDefaultSettings(newRunId): one insert; on success the new row is
\* cached and the handler calls updateSettings with the carried-forward values
ControlInitializeDefaultSettings(r) ==
    /\ req[r].pc = "initializeDefaultSettings"
    /\ \E ok \in BOOLEAN :
          LET q == [req[r] EXCEPT !.wrote = TRUE]
              row == DefaultSettings(Len(store.settings) + 1, q.newRunId)
          IN  IF ok
              THEN /\ store' = [store EXCEPT !.settings = Append(@, row)]
                   /\ settings' = row /\ lastSettingsUpdate' = now
                   /\ req' = [req EXCEPT ![r] =
                                StartCall([q EXCEPT !.updatedSettings = row,
                                                    !.written = Append(@, "initializeDefaultSettings")],
                                          "updateSettings.lookup",
                                          CarryForward(q.currentSettings))]
              ELSE /\ req' = [req EXCEPT ![r] =
                                withRetryCatch(q, "initializeDefaultSettings")]
                   /\ UNCHANGED <<store, settings, lastSettingsUpdate>>
    /\ UNCHANGED <<generated, now, ctlOthers>>

\* updateSettings(updates), first statement of an attempt: this.getLatestSettings(
\* updates.run_id), itself run under withRetry.  updates carries no run_id, so
\* the newest row of any run is selected.  No row makes the attempt fail with
\* 'No settings found to update'.
ControlUpdateSettingsLookup(r) ==
    /\ req[r].pc = "updateSettings.lookup"
    /\ \E ok \in BOOLEAN :
          LET q == [req[r] EXCEPT !.lookups = IF @ > maxRetries THEN @ ELSE @ + 1]
              row == SelectLatestSettings(store.settings, NoRunId)
          IN  req' = [req EXCEPT ![r] =
                        IF ok
                        THEN IF row = NULL
                             THEN withRetryCatch(q, "updateSettings.lookup")
                             ELSE [q EXCEPT !.current = row, !.pc = "updateSettings.update"]
                        ELSE IF q.inner = maxRetries
                             THEN withRetryCatch(q, "updateSettings.lookup")
                             ELSE [q EXCEPT !.inner = @ + 1]]
    /\ UNCHANGED <<store, generated, now, settings, lastSettingsUpdate, ctlOthers>>

\* updateSettings(updates), second statement of an attempt: the update of the
\* row found.  On success the cache is invalidated and set to the updated row
\* and the handler calls logUserAction.
ControlUpdateSettingsUpdate(r) ==
    /\ req[r].pc = "updateSettings.update"
    /\ \E ok \in BOOLEAN :
          LET q == [req[r] EXCEPT !.wrote = TRUE]
              rows == UpdateSettingsRow(store.settings, q.current.id, q.updates)
              row == rows[q.current.id]
          IN  IF ok
              THEN /\ store' = [store EXCEPT !.settings = rows]
                   /\ settings' = row /\ lastSettingsUpdate' = now
                   /\ req' = [req EXCEPT ![r] =
                                StartCall([q EXCEPT !.updatedSettings = row,
                                                    !.written = Append(@, "updateSettings")],
                                          "logUserAction", NULL)]
              ELSE /\ req' = [req EXCEPT ![r] =
                                withRetryCatch(q, "updateSettings.lookup")]
                   /\ UNCHANGED <<store, settings, lastSettingsUpdate>>
    /\ UNCHANGED <<generated, now, ctlOthers>>

\* a logUserAction whose failed insert has been applied by the store all the same
ControlLogUserAction_FailureTakesEffect(r) ==
    /\ req[r].pc = "logUserAction"
    /\ \E ok \in BOOLEAN :
          LET q == [req[r] EXCEPT !.wrote = TRUE]
              row == UserActionOf(q)
          IN  /\ store' = [store EXCEPT !.user_actions = Append(@, row)]
              /\ req' = [req EXCEPT ![r] =
                           IF ok THEN Respond([q EXCEPT !.written = Append(@, "logUserAction")],
                                              200, "OK")
                           ELSE withRetryCatch(q, "logUserAction")]
    /\ UNCHANGED <<generated, now, settings, lastSettingsUpdate, ctlOthers>>

\* logUserAction({run_id, action_type, payload}): one insert, then the 200 answer
ControlLogUserAction(r) ==
    /\ req[r].pc = "logUserAction"
    /\ \E ok \in BOOLEAN :
          LET q == [req[r] EXCEPT !.wrote = TRUE]
              row == UserActionOf(q)
          IN  IF ok
              THEN /\ store' = [store EXCEPT !.user_actions = Append(@, row)]
                   /\ req' = [req EXCEPT ![r] =
                                Respond([q EXCEPT !.written = Append(@, "logUserAction")],
                                        200, "OK")]
              ELSE /\ req' = [req EXCEPT ![r] = withRetryCatch(q, "logUserAction")]
                   /\ UNCHANGED store
    /\ UNCHANGED <<generated, now, settings, lastSettingsUpdate, ctlOthers>>

\* time passes between two steps
ControlAdvanceClock ==
    /\ \E d \in ControlClockOffsets : StartTime + d > now /\ now' = StartTime + d
    /\ UNCHANGED <<ctlVars, settings, lastSettingsUpdate, ctlOthers>>

ControlNext ==
    \/ \E r \in Requests : ControlBegin(r)
    \/ \E r \in Requests : UpdateBegin(r)
    \/ \E r \in Requests : ControlGetLatestSettings(r)
    \/ \E r \in Requests : ControlInitializeDefaultSettings(r)
    \/ \E r \in Requests : ControlUpdateSettingsLookup(r)
    \/ \E r \in Requests : ControlUpdateSettingsUpdate(r)
    \/ \E r \in Requests : ControlLogUserAction(r)
    \/ ControlAdvanceClock

SpecControl == ControlInit /\ [][ControlNext]_vars

(***************************************************************************)
(* Properties of the persistence client and the control endpoint, checked  *)
(* under SpecControl                                                       *)
(***************************************************************************)

\* C14: every persistence operation is attempted at most maxRetries (3)
\* times: within one call of a client method the operation runs at most 3
\* times and no statement of it is sent to the store more than 3 times before
\* the call returns or surfaces its DatabaseError.
C14_AtMostMaxRetries ==
    \A r \in Requests :
        /\ req[r].attempt <= maxRetries
        /\ req[r].lookups <= maxRetries

\* the settings a request found in the store when it arrived
Prior(q) == SelectLatestSettings(q.before.settings, NoRunId)

\* C15: a pause request made while the current Settings are paused, and a
\* resume request made while they are running, is answered 400 INVALID_STATE,
\* sends no write to the store (so nothing is retried), and leaves the
\* settings and user_actions tables as they were.
C15_StateConflictRejected ==
    \A r \in Requests :
        LET q == req[r]
        IN  ( /\ q.pc = "done" /\ q.currentSettings # NULL /\ Prior(q) # NULL
              /\ \/ q.action = "pause" /\ Prior(q).is_paused
                 \/ q.action = "resume" /\ ~Prior(q).is_paused )
            => /\ q.response = [status |-> 400, code |-> "INVALID_STATE"]
               /\ q.currentSettings = Prior(q)
               /\ ~q.wrote /\ q.written = <<>>
               /\ store.settings = q.before.settings
               /\ store.user_actions = q.before.user_actions

\* a second pause, after the first one succeeded, was rejected
C15_Witness ==
    \E r \in Requests :
        /\ req[r].pc = "done" /\ req[r].action = "pause"
        /\ req[r].response = [status |-> 400, code |-> "INVALID_STATE"]
        /\ Len(store.user_actions) = 1
        /\ store.user_actions[1].payload.action = "pause"

\* C16: every run identity generated is distinct from all run identities
\* generated earlier in the process, also within the same millisecond.
C16_RunIdsDistinct ==
    \A i, j \in DOMAIN generated : i # j => generated[i] # generated[j]

\* C17: after a reset answered with success the latest Settings record has a
\* fresh run identity (one that no earlier record carries), the target price
\* and both split weights of the prior run, and is_paused = false; the records
\* that existed before are all still there, unmodified.
C17_ResetCarriesForward ==
    \A r \in Requests :
        LET q    == req[r]
            rows == store.settings
            n    == Len(q.before.settings)
            new  == SelectLatestSettings(rows, NoRunId)
        IN  (q.pc = "done" /\ q.action = "reset" /\ q.response.status = 200)
            => /\ Len(rows) = n + 1
               /\ new.run_id = q.newRunId
               /\ \A i \in 1..n : rows[i].run_id # new.run_id
               /\ new.target_price = Prior(q).target_price
               /\ new.split_part1 = Prior(q).split_part1
               /\ new.split_part2 = Prior(q).split_part2
               /\ ~new.is_paused
               /\ SubSeq(rows, 1, n) = q.before.settings

\* C18: a reset reports success only if both the create-defaults step and the
\* carry-forward step succeeded; if the carry-forward step fails after the
\* defaults were created, the reset reports failure and the latest Settings
\* record is the default one under the new run identity: default target,
\* weights summing to 1, not paused.
C18_ResetSuccessNeedsBothSteps ==
    \A r \in Requests :
        LET q       == req[r]
            new     == SelectLatestSettings(store.settings, NoRunId)
            created == \E i \in DOMAIN q.written : q.written[i] = "initializeDefaultSettings"
            carried == \E i \in DOMAIN q.written : q.written[i] = "updateSettings"
        IN  (q.pc = "done" /\ q.action = "reset")
            => /\ q.response.status = 200 => (created /\ carried)
               /\ (created /\ ~carried) =>
                     /\ q.response.status = 500
                     /\ Len(store.settings) = Len(q.before.settings) + 1
                     /\ new.run_id = q.newRunId
                     /\ new.target_price = 10000
                     /\ new.split_part1 + new.split_part2 = SplitOne
                     /\ ~new.is_paused

\* the defaults were created, every attempt of the carry-forward failed, and
\* the reset answered 500
C18_Witness ==
    \E r \in Requests :
        /\ req[r].pc = "done" /\ req[r].action = "reset"
        /\ req[r].written = <<"initializeDefaultSettings">>
        /\ req[r].response = [status |-> 500, code |-> "DATABASE_ERROR"]
        /\ Prior(req[r]).target_price = 200
        /\ store.settings[Len(store.settings)].target_price = 10000

C36_ErrorLeavesSettingsUnchanged ==
    \A r \in Requests :
        (req[r].pc = "done" /\ req[r].response.status # 200) =>
            store.settings = req[r].before.settings

(***************************************************************************)
(* SpecOverlap: control requests whose handlers overlap.  A request may    *)
(* arrive while the handler of another awaits the store; the steps of the  *)
(* two handlers interleave at their awaits.                                *)
(***************************************************************************)

\* POST /api/control arrives, whatever the other handlers are doing
OverlapBegin(r) ==
    /\ req[r].pc = "idle"
    /\ \E action \in ControlActions, randomStr \in RandomSuffixes :
          LET q == [IdleRequest EXCEPT !.seq = NextSeq, !.endpoint = "control",
                                       !.action = action, !.before = store]
              expired == isSettingsExpired(lastSettingsUpdate, now)
              q2 == IF ~validateControlPayload(action)
                    THEN Respond(q, 400, "VALIDATION_ERROR")
                    ELSE IF ~expired /\ settings # NULL
                    THEN Dispatch(q, settings, now, randomStr)
                    ELSE StartCall(q, "getLatestSettings", NULL)
          IN  /\ req' = [req EXCEPT ![r] = q2]
              /\ generated' = Issued(q, q2)
              /\ settings' = IF validateControlPayload(action) /\ expired
                             THEN NULL ELSE settings
    /\ UNCHANGED <<store, now, lastSettingsUpdate, ctlOthers>>

OverlapNext ==
    \/ \E r \in Requests : OverlapBegin(r)
    \/ \E r \in Requests : ControlGetLatestSettings(r)
    \/ \E r \in Requests : ControlInitializeDefaultSettings(r)
    \/ \E r \in Requests : ControlUpdateSettingsLookup(r)
    \/ \E r \in Requests : ControlUpdateSettingsUpdate(r)
    \/ \E r \in Requests : ControlLogUserAction(r)

SpecOverlap == ControlInit /\ [][OverlapNext]_vars

\* C35: a pause succeeds only if the stored run is running at the moment its
\* update is applied, and a resume only if it is paused, however the requests
\* interleave; so two overlapping pauses of a running run never both succeed.
C35_StateCheckedAtUpdate ==
    [][ \A r \in Requests :
          (/\ req[r].pc = "updateSettings.update"
           /\ req'[r].pc = "logUserAction"
           /\ req[r].action \in {"pause", "resume"}) =>
             LET stored == SelectLatestSettings(store.settings, NoRunId)
             IN  stored.is_paused = (req[r].action = "resume") ]_vars

\* C39: when two resets overlap, the carry-forward update of each is applied
\* to the settings record the same reset created.
C39_CarryForwardOnOwnRecord ==
    [][ \A r \in Requests :
          (/\ req[r].pc = "updateSettings.update"
           /\ req'[r].pc = "logUserAction"
           /\ req[r].action = "reset") =>
             req[r].current.run_id = req[r].newRunId ]_vars

(***************************************************************************)
(* SpecLive: the stream of one observer together with the control          *)
(* endpoint, on one store and one cache.  The stream reads the store when  *)
(* it initialises its Simulator; control requests are followed from then   *)
(* on, within the TTL of the cached settings.                              *)
(***************************************************************************)

LiveInit ==
    /\ state = NULL
    /\ ret = NULL /\ thrown = FALSE /\ lastOp = "new" /\ pausedTicks = 0
    /\ now = StartTime
    /\ CacheIdle
    /\ \E row \in InitialSettings :
          /\ store = [settings |-> <<row>>, user_actions |-> <<>>,
                      ticks |-> <<>>, aggregates |-> <<>>]
          /\ db = [settings |-> row, latestTick |-> NULL]
    /\ globalSimulator = 0 /\ simulationInterval = 0
    /\ timers = {} /\ timerSeq = 0
    /\ connectedClients = <<>>
    /\ pc = [c \in Clients |-> "new"]
    /\ fetched = [c \in Clients |-> NULL]
    /\ writableEnded = {} /\ closed = {}
    /\ received = [c \in Clients |-> <<>>]
    /\ gen = 0 /\ failed = {}
    /\ keepAlive = {} /\ uncaught = FALSE
    /\ req = [r \in Requests |-> IdleRequest]
    /\ generated = <<>>

\* POST /api/control once the stream has its Simulator
LiveControlBegin(r) ==
    /\ globalSimulator # 0
    /\ ControlBegin(r)

LiveNext ==
    \/ \E c \in ObserverClients : HandlerBegin(c)
    \/ \E c \in ObserverClients : HandlerSettings(c)
    \/ \E c \in ObserverClients : HandlerTick(c)
    \/ SimulationLoop
    \/ \E r \in Requests : LiveControlBegin(r)
    \/ \E r \in Requests : ControlInitializeDefaultSettings(r)
    \/ \E r \in Requests : ControlUpdateSettingsLookup(r)
    \/ \E r \in Requests : ControlUpdateSettingsUpdate(r)
    \/ \E r \in Requests : ControlLogUserAction(r)

SpecLive == LiveInit /\ [][LiveNext]_vars

\* the request made last is a pause and it has been answered 200
PauseSucceeded ==
    \E r \in Requests :
        /\ req[r].pc = "done" /\ req[r].action = "pause"
        /\ req[r].response.status = 200
        /\ \A o \in Requests \ {r} : req[o].seq < req[r].seq

\* C33: after a pause control action has succeeded the live Simulator is
\* paused: each tick the loop generates and broadcasts from then on, until a
\* resume succeeds, carries the total_value of the tick before it.
C33_PauseStopsLiveSimulator ==
    [][ (PauseSucceeded /\ lastOp' = "loop" /\ gen' = gen + 1) =>
            /\ ~state'.isRunning
            /\ state'.currentValue = state.currentValue ]_vars

(***************************************************************************)
(* SpecClient: calls of CachedDatabaseClient.getLatestSettings,            *)
(* getLatestTick and updateSettings (src/dist/src/db/cached-client.js,     *)
(* lines 18-57) that overlap on one cache and one store.  A statement is   *)
(* evaluated by the store in one step and its answer reaches the client    *)
(* in a later one; the store answers every statement.                      *)
(***************************************************************************)

\* the calls followed
Calls == {1, 2, 3}

\* a call that has not been made
IdleCall ==
    [pc |-> "idle", method |-> "", runId |-> NoRunId, updates |-> NULL,
     current |-> NULL, answer |-> NULL, response |-> NULL, after |-> {}]

\* the settings rows of the store: an earlier run and the latest run
ClientSettings ==
    << [id |-> 1, run_id |-> "run0", target_price |-> 200,
        split_part1 |-> 60000, split_part2 |-> 40000, is_paused |-> TRUE],
       [id |-> 2, run_id |-> "run1", target_price |-> 10000,
        split_part1 |-> 50000, split_part2 |-> 50000, is_paused |-> FALSE] >>

\* the tick rows of the store, one of either run
ClientTicks ==
    << [run_id |-> "run0", timestamp |-> 0, total_value |-> 201],
       [run_id |-> "run1", timestamp |-> 1, total_value |-> 10003] >>

\* the run identities a caller passes: none, or the earlier run
ClientRunIds == {NoRunId, "run0"}

\* the updates a caller passes to updateSettings
ClientUpdates == { [target_price |-> 15000] }

\* select * from ticks [where run_id = runId] order by timestamp desc limit 1
SelectLatestTick(rows, runId) ==
    LET hits == { i \in DOMAIN rows : runId = NoRunId \/ rows[i].run_id = runId }
    IN  IF hits = {} THEN NULL
        ELSE rows[CHOOSE i \in hits : \A j \in hits : rows[j].timestamp <= rows[i].timestamp]

\* cachedValue && (!runId || cachedValue.run_id === runId)
CacheHit(cached, runId) ==
    cached # NULL /\ (runId = NoRunId \/ cached.run_id = runId)

\* what the calls of the client never touch
clientOthers == <<state, thrown, pausedTicks, now, hist, streamVars, generated>>

ClientInit ==
    /\ state = NULL
    /\ ret = NULL /\ thrown = FALSE /\ lastOp = "new" /\ pausedTicks = 0
    /\ now = StartTime
    /\ CacheIdle
    /\ StreamIdle
    /\ store = [settings |-> ClientSettings, user_actions |-> <<>>,
                ticks |-> ClientTicks, aggregates |-> <<>>]
    /\ req = [k \in Calls |-> IdleCall]
    /\ generated = <<>>

\* getLatestSettings(runId) up to its await (lines 18-25): the cached settings
\* are returned when there are some and no run is named or they are of the
\* run named; otherwise the select is sent
ClientGetLatestSettings(k) ==
    /\ req[k].pc = "idle"
    /\ \E runId \in ClientRunIds :
          LET q == [IdleCall EXCEPT !.method = "getLatestSettings", !.runId = runId,
                                    !.after = { j \in Calls : req[j].pc = "done" }]
              expired == isSettingsExpired(lastSettingsUpdate, now)
              cached == IF expired THEN NULL ELSE settings
          IN  /\ settings' = cached
              /\ req' = [req EXCEPT ![k] =
                           IF CacheHit(cached, runId)
                           THEN [q EXCEPT !.pc = "done", !.response = cached]
                           ELSE [q EXCEPT !.pc = "select"]]
    /\ ret' = NULL /\ lastOp' = "getLatestSettings"
    /\ UNCHANGED <<store, latestTick, lastTickUpdate, lastSettingsUpdate, clientOthers>>

\* getLatestTick(runId) up to its await (lines 45-52)
ClientGetLatestTick(k) ==
    /\ req[k].pc = "idle"
    /\ \E runId \in ClientRunIds :
          LET q == [IdleCall EXCEPT !.method = "getLatestTick", !.runId = runId,
                                    !.after = { j \in Calls : req[j].pc = "done" }]
              expired == isTickExpired(lastTickUpdate, now)
              cached == IF expired THEN NULL ELSE latestTick
          IN  /\ latestTick' = cached
              /\ req' = [req EXCEPT ![k] =
                           IF CacheHit(cached, runId)
                           THEN [q EXCEPT !.pc = "done", !.response = cached]
                           ELSE [q EXCEPT !.pc = "select"]]
    /\ ret' = NULL /\ lastOp' = "getLatestTick"
    /\ UNCHANGED <<store, settings, lastTickUpdate, lastSettingsUpdate, clientOthers>>

\* updateSettings(updates) up to the update statement (line 35; example.js
\* 151-166): databaseClient.getLatestSettings(updates.run_id) finds the row,
\* the newest of any run as updates names no run, and the update is sent
ClientUpdateSettings(k) ==
    /\ req[k].pc = "idle"
    /\ \A j \in Calls : req[j].method # "updateSettings"
    /\ \E updates \in ClientUpdates :
          req' = [req EXCEPT ![k] =
                    [IdleCall EXCEPT !.method = "updateSettings", !.updates = updates,
                                     !.current = SelectLatestSettings(store.settings, NoRunId),
                                     !.after = { j \in Calls : req[j].pc = "done" },
                                     !.pc = "update"]]
    /\ ret' = NULL /\ lastOp' = "updateSettings"
    /\ UNCHANGED <<store, cacheVars, clientOthers>>

\* the store evaluates the statement of call k: a select reads the table, the
\* update writes the row; the answer is on its way
ClientStatement(k) ==
    /\ req[k].pc \in {"select", "update"}
    /\ LET q == req[k]
       IN  CASE q.method = "getLatestSettings" ->
                  /\ req' = [req EXCEPT ![k] =
                               [q EXCEPT !.pc = "answer",
                                         !.answer = SelectLatestSettings(store.settings, q.runId)]]
                  /\ store' = store
             [] q.method = "getLatestTick" ->
                  /\ req' = [req EXCEPT ![k] =
                               [q EXCEPT !.pc = "answer",
                                         !.answer = SelectLatestTick(store.ticks, q.runId)]]
                  /\ store' = store
             [] q.method = "updateSettings" ->
                  LET rows == UpdateSettingsRow(store.settings, q.current.id, q.updates)
                  IN  /\ store' = [store EXCEPT !.settings = rows]
                      /\ req' = [req EXCEPT ![k] =
                                   [q EXCEPT !.pc = "answer", !.answer = rows[q.current.id]]]
    /\ ret' = NULL /\ lastOp' = "statement"
    /\ UNCHANGED <<cacheVars, clientOthers>>

\* the answer reaches the call that awaits it: a row selected is put in the
\* cache (lines 26-28, 53-55); after an update the cache is invalidated and
\* set to the updated row (lines 37-39); the call returns
ClientAnswer(k) ==
    /\ req[k].pc = "answer"
    /\ LET q == req[k]
       IN  /\ req' = [req EXCEPT ![k] = [q EXCEPT !.pc = "done", !.response = q.answer,
                                                  !.answer = NULL]]
           /\ CASE q.method = "getLatestSettings" /\ q.answer # NULL ->
                      /\ settings' = q.answer /\ lastSettingsUpdate' = now
                      /\ UNCHANGED <<latestTick, lastTickUpdate>>
                [] q.method = "getLatestTick" /\ q.answer # NULL ->
                      /\ latestTick' = q.answer /\ lastTickUpdate' = now
                      /\ UNCHANGED <<settings, lastSettingsUpdate>>
                [] q.method = "updateSettings" ->
                      /\ settings' = q.answer /\ lastSettingsUpdate' = now
                      /\ UNCHANGED <<latestTick, lastTickUpdate>>
                [] OTHER -> UNCHANGED <<settings, lastSettingsUpdate, latestTick, lastTickUpdate>>
    /\ ret' = req'[k].response /\ lastOp' = "answer"
    /\ UNCHANGED <<store, clientOthers>>

ClientNext ==
    \/ \E k \in Calls : ClientGetLatestSettings(k)
    \/ \E k \in Calls : ClientGetLatestTick(k)
    \/ \E k \in Calls : ClientUpdateSettings(k)
    \/ \E k \in Calls : ClientStatement(k)
    \/ \E k \in Calls : ClientAnswer(k)

SpecClient == ClientInit /\ [][ClientNext]_vars

\* C32: however updateSettings interleaves with getLatestSettings calls that
\* name no run, a getLatestSettings() made after updateSettings has returned
\* does not return settings older than the update: it returns the updated row.
C32_NoStaleSettingsAfterUpdate ==
    (\A j \in Calls : req[j].runId = NoRunId) =>
        \A u, g \in Calls :
            (/\ req[u].method = "updateSettings" /\ req[u].pc = "done"
             /\ req[g].method = "getLatestSettings" /\ req[g].pc = "done"
             /\ u \in req[g].after) =>
                /\ req[g].response.id = req[u].response.id
                /\ req[g].response.target_price = req[u].updates.target_price

\* C34: getLatestSettings() and getLatestTick() called without a run identity
\* return a record of the latest run, also when an earlier call on the same
\* cache named an older run.
C34_NoRunMeansLatestRun ==
    \A g \in Calls :
        (/\ req[g].pc = "done" /\ req[g].runId = NoRunId
         /\ req[g].method \in {"getLatestSettings", "getLatestTick"}) =>
            req[g].response.run_id = SelectLatestSettings(store.settings, NoRunId).run_id

(***************************************************************************)
(* Aggregation (POST /api/aggregation in src/api/aggregation.ts,           *)
(* insertAggregates and batchInsertTicks in src/dist/src/db/example.js).   *)
(* The job behind scheduler.runJob is not among the sources; it is         *)
(* modelled from the specification of the Aggregator: select the run's     *)
(* ticks of the bucket's window [start, end) in timestamp order, fold them *)
(* into one record, hand the records to insertAggregates.                  *)
(*                                                                         *)
(* Tick timestamps and bucket boundaries are in seconds.  Ticks reach the  *)
(* store in timestamp order, so the ticks table is in timestamp order.     *)
(***************************************************************************)

\* interval classes accepted by run_job
IntervalTypes == {"minute", "hour", "day"}

\* jobType values a caller may send
JobTypes == IntervalTypes \cup {"week"}

\* width of a bucket of an interval class, in seconds
BucketWidth(intervalType) ==
    CASE intervalType = "minute" -> 60
      [] intervalType = "hour"   -> 3600
      [] intervalType = "day"    -> 86400

\* timestamps and total values of the ticks that get persisted
TickTimes == {10, 50, 70}
TickPrices == {98, 103}

\* times at which a job is run: it aggregates the bucket containing that time
JobTimes == {10, 70}

\* bounds on the rows of the ticks and aggregates tables
MaxTicks == 3
MaxAggregates == 2

\* start of the bucket of class intervalType that contains time t
BucketStart(t, intervalType) == t - (t % BucketWidth(intervalType))

\* select * from ticks where run_id = runId and start <= timestamp < end
\* order by timestamp
TicksInWindow(ticks, runId, start, end) ==
    SelectSeq(ticks, LAMBDA k : k.run_id = runId /\ start <= k.timestamp /\ k.timestamp < end)

\* a fold step that takes the latest value for the high
FoldStep_HighIsClose(acc, tick) ==
    [acc EXCEPT !.high_value  = tick.total_value,
                !.low_value   = IF tick.total_value < @ THEN tick.total_value ELSE @,
                !.close_value = tick.total_value,
                !.tick_count  = @ + 1]

\* one step of the fold: the record so far, extended by the next tick
FoldStep(acc, tick) ==
    [acc EXCEPT !.high_value  = IF tick.total_value > @ THEN tick.total_value ELSE @,
                !.low_value   = IF tick.total_value < @ THEN tick.total_value ELSE @,
                !.close_value = tick.total_value,
                !.tick_count  = @ + 1]

RECURSIVE FoldTicks(_, _)
FoldTicks(acc, tks) ==
    IF tks = <<>> THEN acc ELSE FoldTicks(FoldStep(acc, Head(tks)), Tail(tks))

\* the records a job produces for one bucket: none for an empty window,
\* otherwise the fold of the window's ticks, seeded with the first tick
AggregateBucket(tks, runId, intervalType, start) ==
    IF tks = <<>> THEN <<>>
    ELSE << FoldTicks([run_id |-> runId, interval_type |-> intervalType,
                       bucket_start |-> start,
                       bucket_end |-> start + BucketWidth(intervalType),
                       open_value |-> Head(tks).total_value,
                       high_value |-> Head(tks).total_value,
                       low_value |-> Head(tks).total_value,
                       close_value |-> Head(tks).total_value,
                       tick_count |-> 1],
                      Tail(tks)) >>

\* rows of the aggregates table after insertAggregates(aggregates): nothing is
\* sent for an empty list, otherwise one plain insert of all records; when
\* the insert fails on each of its attempts nothing is stored
insertAggregates(rows, aggregates, ok) ==
    IF aggregates = <<>> \/ ~ok THEN rows ELSE rows \o aggregates

\* scheduler.runJob(jobType, runId) for the bucket that contains time t
runJob(st, intervalType, runId, t, ok) ==
    LET start == BucketStart(t, intervalType)
        tks   == TicksInWindow(st.ticks, runId, start, start + BucketWidth(intervalType))
        out   == AggregateBucket(tks, runId, intervalType, start)
    IN  [store   |-> [st EXCEPT !.aggregates = insertAggregates(@, out, ok)],
         result  |-> [jobType |-> intervalType, run_id |-> runId, bucket_start |-> start,
                      ticks |-> tks, aggregates |-> out,
                      success |-> ok \/ out = <<>>]]

\* what the aggregation endpoint and the tick writer never touch
aggOthers == <<state, thrown, pausedTicks, now, cacheVars, streamVars, req, generated>>

AggInit ==
    /\ state = NULL
    /\ ret = NULL /\ thrown = FALSE /\ lastOp = "new" /\ pausedTicks = 0
    /\ now = StartTime
    /\ CacheIdle
    /\ StreamIdle
    /\ CtlIdle

\* batchInsertTicks([tick]): the next tick of the generation loop is persisted;
\* nothing is stored when the insert fails on each of its attempts
AggBatchInsertTicks ==
    /\ Len(store.ticks) < MaxTicks
    /\ \E runId \in RunIds, t \in TickTimes, v \in TickPrices, ok \in BOOLEAN :
          /\ \A i \in DOMAIN store.ticks : store.ticks[i].timestamp < t
          /\ store' = IF ok
                      THEN [store EXCEPT !.ticks =
                              Append(@, [run_id |-> runId, timestamp |-> t,
                                         total_value |-> v,
                                         part1_value |-> v * 60000,
                                         part2_value |-> v * 40000,
                                         target_price |-> 100])]
                      ELSE store
    /\ ret' = NULL /\ lastOp' = "batchInsertTicks"
    /\ UNCHANGED aggOthers

\* POST /api/aggregation {action: 'run_job', jobType, runId}
AggRunJob ==
    /\ Len(store.aggregates) < MaxAggregates
    /\ \E jobType \in JobTypes, runId \in RunIds, t \in JobTimes, ok \in BOOLEAN :
          IF jobType \notin IntervalTypes
          THEN /\ ret' = [status |-> 400, results |-> <<>>]
               /\ store' = store
          ELSE LET run == runJob(store, jobType, runId, t, ok)
               IN  /\ ret' = [status |-> 200, results |-> <<run.result>>]
                   /\ store' = run.store
    /\ lastOp' = "run_job"
    /\ UNCHANGED aggOthers

\* POST /api/aggregation {action: 'run_all_jobs', runId}: the minute, hour and
\* day jobs, one after the other; the insert of at most one of them fails
AggRunAllJobs ==
    /\ Len(store.aggregates) < MaxAggregates
    /\ \E runId \in RunIds, t \in JobTimes, failing \in IntervalTypes \cup {"none"} :
          LET m == runJob(store, "minute", runId, t, failing # "minute")
              h == runJob(m.store, "hour", runId, t, failing # "hour")
              d == runJob(h.store, "day", runId, t, failing # "day")
          IN  /\ ret' = [status |-> 200, results |-> <<m.result, h.result, d.result>>]
              /\ store' = d.store
    /\ lastOp' = "run_all_jobs"
    /\ UNCHANGED aggOthers

AggNext ==
    \/ AggBatchInsertTicks
    \/ AggRunJob
    \/ AggRunAllJobs

SpecAgg == AggInit /\ [][AggNext]_vars

(***************************************************************************)
(* Properties of the aggregation, checked under SpecAgg                    *)
(***************************************************************************)

Values(tks) == { tks[i].total_value : i \in DOMAIN tks }

\* C20: for every bucket window [start, end) and the run's ticks in it, in
\* timestamp order, the aggregate has open = the first tick's total value,
\* close = the last tick's, high = the maximum, low = the minimum and
\* tick_count = the number of ticks; a window without ticks produces no record
\* and adds none to the store.
C20_AggregateIsOhlcOfWindow ==
    /\ [](lastOp \in {"run_job", "run_all_jobs"} =>
            \A k \in DOMAIN ret.results :
                LET res == ret.results[k]
                    tks == res.ticks
                IN  /\ \A i \in DOMAIN tks :
                          /\ tks[i].run_id = res.run_id
                          /\ res.bucket_start <= tks[i].timestamp
                          /\ tks[i].timestamp < res.bucket_start + BucketWidth(res.jobType)
                          /\ i > 1 => tks[i - 1].timestamp < tks[i].timestamp
                    /\ IF tks = <<>> THEN res.aggregates = <<>>
                       ELSE /\ Len(res.aggregates) = 1
                            /\ LET a == res.aggregates[1]
                               IN  /\ a.open_value = tks[1].total_value
                                   /\ a.close_value = tks[Len(tks)].total_value
                                   /\ a.high_value \in Values(tks)
                                   /\ \A v \in Values(tks) : v <= a.high_value
                                   /\ a.low_value \in Values(tks)
                                   /\ \A v \in Values(tks) : a.low_value <= v
                                   /\ a.tick_count = Len(tks)
                                   /\ a.run_id = res.run_id
                                   /\ a.interval_type = res.jobType
                                   /\ a.bucket_start = res.bucket_start
                                   /\ a.bucket_end = res.bucket_start + BucketWidth(res.jobType))
    /\ [][ (lastOp' = "run_job" /\ ret'.status = 200 /\ ret'.results[1].ticks = <<>>)
              => store'.aggregates = store.aggregates ]_vars

\* a job folded three ticks whose highest value is neither the first nor the last
C20_Witness ==
    /\ lastOp = "run_job" /\ ret.status = 200
    /\ Len(ret.results[1].ticks) = 3
    /\ ret.results[1].aggregates[1].high_value = 103
    /\ ret.results[1].aggregates[1].open_value = 98
    /\ ret.results[1].aggregates[1].close_value = 98
    /\ Len(store.aggregates) = 2

(***************************************************************************)
(* Chart queries: GET /api/chart (src/unnamed/part_004, lines 39-114) and  *)
(* SupabaseDatabaseClient.getAggregates (src/dist/src/db/example.js,       *)
(* lines 207-230)                                                          *)
(***************************************************************************)

\* values of the `interval` query parameter tried
ChartIntervals == {"day", "week", "month", "hour"}

\* values of the `limit` query parameter tried; "" is a request without one
LimitParams == {"", "0", "1", "2", "abc"}

\* bound on the rows of the aggregates table
MaxChartRows == 3

\* limitNum when the request carries no limit
DefaultLimit == 100

\* isNaN(Number(limit)) for the parameters tried
isNaN(str) == str \notin {"0", "1", "2"}

\* Number(limit) for the parameters tried that are numbers
ToNumber(str) ==
    CASE str = "0" -> 0
      [] str = "1" -> 1
      [] str = "2" -> 2

\* intervalTypeMap of getAggregates
intervalTypeMap(interval) ==
    CASE interval = "day"   -> "minute"
      [] interval = "week"  -> "hour"
      [] interval = "month" -> "day"

\* Math.min(a, b) and Math.max(a, b)
Min(a, b) == IF a < b THEN a ELSE b
Max(a, b) == IF a > b THEN a ELSE b

\* the record of bucket number k of an interval class, for a run
ChartRow(runId, intervalType, k) ==
    [run_id |-> runId, interval_type |-> intervalType,
     bucket_start |-> k * BucketWidth(intervalType),
     bucket_end |-> (k + 1) * BucketWidth(intervalType),
     open_value |-> 98, high_value |-> 103, low_value |-> 98, close_value |-> 103,
     tick_count |-> 2]

\* rows the aggregation jobs may have stored: the first two minute buckets of
\* either run, and the first hour and day bucket of the first run
ChartRows ==
    { ChartRow(runId, "minute", k) : runId \in RunIds, k \in {0, 1} }
       \cup { ChartRow("run0", "hour", 0), ChartRow("run0", "day", 0) }

\* .eq('interval_type', ...) and, when a run is named, .eq('run_id', runId)
MatchingAggregates(rows, interval, runId) ==
    SelectSeq(rows, LAMBDA a : /\ a.interval_type = intervalTypeMap(interval)
                               /\ (runId = NoRunId \/ a.run_id = runId))

\* the orders in which the store may return rows for
\* .order('bucket_start', {ascending: true}): rows of equal bucket_start come
\* in any order
SortedOrders(rows) ==
    { f \in [DOMAIN rows -> DOMAIN rows] :
        /\ \A i, j \in DOMAIN rows : i # j => f[i] # f[j]
        /\ \A i, j \in DOMAIN rows :
              i < j => rows[f[i]].bucket_start <= rows[f[j]].bucket_start }

\* a getAggregates that leaves out the order clause: rows come as stored
getAggregates_Unordered(rows, interval, runId, limit, f) ==
    LET matching == MatchingAggregates(rows, interval, runId)
    IN  SubSeq(matching, 1, Min(limit, Len(matching)))

\* getAggregates(interval, runId, limit) answered by the store in order f
getAggregates(rows, interval, runId, limit, f) ==
    LET matching == MatchingAggregates(rows, interval, runId)
        sorted   == [i \in DOMAIN matching |-> matching[f[i]]]
    IN  SubSeq(sorted, 1, Min(limit, Len(matching)))

\* aggregates.map(...) of the handler: the chart format
ChartData(aggregates) ==
    [i \in DOMAIN aggregates |->
        [timestamp  |-> aggregates[i].bucket_start,
         open       |-> aggregates[i].open_value,
         high       |-> aggregates[i].high_value,
         low        |-> aggregates[i].low_value,
         close      |-> aggregates[i].close_value,
         tick_count |-> aggregates[i].tick_count]]

\* what the chart endpoint and the aggregate writer never touch
chartOthers == <<state, thrown, pausedTicks, now, cacheVars, streamVars, req, generated>>

ChartInit ==
    /\ state = NULL
    /\ ret = NULL /\ thrown = FALSE /\ lastOp = "new" /\ pausedTicks = 0
    /\ now = StartTime
    /\ CacheIdle
    /\ StreamIdle
    /\ CtlIdle

\* insertAggregates([row]) by an aggregation job
ChartInsertAggregates ==
    /\ Len(store.aggregates) < MaxChartRows
    /\ \E row \in ChartRows, ok \in BOOLEAN :
          store' = [store EXCEPT !.aggregates = insertAggregates(@, <<row>>, ok)]
    /\ ret' = NULL /\ lastOp' = "insertAggregates"
    /\ UNCHANGED chartOthers

\* GET /api/chart?interval=...&limit=...: 400 for an interval that is not
\* day, week or month and for a limit that is not a number, 500 when
\* getAggregates fails on each of its attempts, otherwise 200 with the rows in
\* chart format.  aggregates is the list getAggregates returned.
ChartQuery ==
    /\ \E interval \in ChartIntervals, limit \in LimitParams, ok \in BOOLEAN :
          LET query == [interval |-> interval, limit |-> limit]
          IN  IF interval \notin {"day", "week", "month"}
              THEN ret' = [status |-> 400, query |-> query, limitNum |-> 0,
                           aggregates |-> <<>>, data |-> <<>>]
              ELSE IF limit # "" /\ isNaN(limit)
              THEN ret' = [status |-> 400, query |-> query, limitNum |-> 0,
                           aggregates |-> <<>>, data |-> <<>>]
              ELSE LET limitNum == IF limit = "" THEN DefaultLimit
                                   ELSE Min(Max(1, ToNumber(limit)), 1000)
                   IN  IF ~ok
                       THEN ret' = [status |-> 500, query |-> query, limitNum |-> limitNum,
                                    aggregates |-> <<>>, data |-> <<>>]
                       ELSE \E f \in SortedOrders(MatchingAggregates(store.aggregates,
                                                                     interval, NoRunId)) :
                               LET aggregates == getAggregates(store.aggregates, interval,
                                                               NoRunId, limitNum, f)
                               IN  ret' = [status |-> 200, query |-> query,
                                           limitNum |-> limitNum,
                                           aggregates |-> aggregates,
                                           data |-> ChartData(aggregates)]
    /\ lastOp' = "chart"
    /\ UNCHANGED <<store, chartOthers>>

ChartNext ==
    \/ ChartInsertAggregates
    \/ ChartQuery

SpecChart == ChartInit /\ [][ChartNext]_vars

(***************************************************************************)
(* Properties of the chart queries, checked under SpecChart                *)
(***************************************************************************)

\* C28: a chart query for view day, week or month returns only aggregates of
\* interval class minute, hour or day respectively, ordered by bucket start
\* ascending and containing at most the requested limit of entries.
C28_ChartWithinRequestedLimit ==
    (lastOp = "chart" /\ ret.status = 200) =>
        /\ \A i \in DOMAIN ret.aggregates :
              ret.aggregates[i].interval_type =
                 (CASE ret.query.interval = "day" -> "minute"
                    [] ret.query.interval = "week" -> "hour"
                    [] OTHER -> "day")
        /\ \A i, j \in DOMAIN ret.data :
              i < j => ret.data[i].timestamp <= ret.data[j].timestamp
        /\ ret.query.limit # "" => Len(ret.data) <= ToNumber(ret.query.limit)

\* C28, amended: the same, with the limit the handler applies in place of the
\* requested one: the requested limit raised to at least 1 and lowered to at
\* most 1000, and 100 for a request without a limit.
C28_ChartWithinClampedLimit ==
    (lastOp = "chart" /\ ret.status = 200) =>
        /\ \A i \in DOMAIN ret.aggregates :
              ret.aggregates[i].interval_type =
                 (CASE ret.query.interval = "day" -> "minute"
                    [] ret.query.interval = "week" -> "hour"
                    [] OTHER -> "day")
        /\ Len(ret.data) = Len(ret.aggregates)
        /\ \A i \in DOMAIN ret.data :
              ret.data[i].timestamp = ret.aggregates[i].bucket_start
        /\ \A i, j \in DOMAIN ret.data :
              i < j => ret.data[i].timestamp <= ret.data[j].timestamp
        /\ ret.query.limit = "" => Len(ret.data) <= 100
        /\ ret.query.limit # "" =>
              LET requested == ToNumber(ret.query.limit)
              IN  Len(ret.data) <= (IF requested < 1 THEN 1
                                    ELSE IF requested > 1000 THEN 1000 ELSE requested)

\* the table holds the second minute bucket before the first and an hour
\* bucket; the day view with limit 1 returns the first minute bucket only
C28_Witness ==
    /\ lastOp = "chart" /\ ret.status = 200
    /\ ret.query = [interval |-> "day", limit |-> "1"]
    /\ Len(store.aggregates) = 3
    /\ store.aggregates[1].interval_type = "minute" /\ store.aggregates[1].bucket_start = 60
    /\ store.aggregates[2].interval_type = "hour"
    /\ store.aggregates[3].interval_type = "minute" /\ store.aggregates[3].bucket_start = 0
    /\ Len(ret.data) = 1 /\ ret.data[1].timestamp = 0

\* C38: a chart query returns aggregates of the current run only, never those
\* of an earlier run: in particular every aggregate of one answer belongs to
\* the same run.
C38_ChartOfOneRun ==
    (lastOp = "chart" /\ ret.status = 200) =>
        \A i, j \in DOMAIN ret.aggregates :
            ret.aggregates[i].run_id = ret.aggregates[j].run_id

====
